---- MODULE Spec2Model ----
(***************************************************************************)
(* A model of djangotoolbox's non-relational query layer:                  *)
(*   - NonrelQuery.add_filters, the walk over Django's WHERE tree that     *)
(*     emits one add_filter call per constraint leaf (basecompiler.py);    *)
(*   - NonrelQuery._decode_child / _normalize_lookup_value / _get_children;*)
(*   - NonrelQuery._matches_filters, the in-memory filter.                 *)
(*                                                                         *)
(* Python values are modelled as tagged records: an atom is                *)
(* [type, v] with v a sequence of naturals (the characters of a str, the   *)
(* number of an int, bool or date), a list/tuple is [type |-> "list",      *)
(* items].  A WHERE tree leaf is the 4-tuple (constraint, lookup_type,     *)
(* annotation, value) of the source; constraint.process belongs to Django, *)
(* so a leaf carries what process returns for it (alias, column, db_type   *)
(* and the prepared value).                                                *)
(***************************************************************************)
EXTENDS Naturals, Sequences, FiniteSets, TLC

\* ------------------------------------------------------------------------
\* Bounds of the model
\* ------------------------------------------------------------------------
\* Trees of the walk hold at most MaxSize nodes and leaves together.
MaxSize == 3
\* A prepared lookup value (a list) holds at most MaxSeqLen elements.
MaxSeqLen == 2
\* The most items in a collection and the deepest nesting of collection
\* fields that are converted.
MaxItems == 2
MaxDepth == 2

\* ------------------------------------------------------------------------
\* Python values
\* ------------------------------------------------------------------------
None == [type |-> "none", v |-> <<>>]
Bool(b) == [type |-> "bool", v |-> <<IF b THEN 1 ELSE 0>>]
Int(n) == [type |-> "int", v |-> <<n>>]
Date(n) == [type |-> "date", v |-> <<n>>]
Str(s) == [type |-> "str", v |-> s]
List(xs) == [type |-> "list", items |-> xs]

IsList(x) == x.type = "list"

\* The characters the model's strs are made of, by ord(): the '%' that
\* Field.get_db_prep_lookup adds, a letter in both cases.
Ord == [percent |-> 37, A |-> 65, a |-> 97]
PERCENT == Ord.percent
CHAR_A == Ord.A
CHAR_a == Ord.a

\* A call either returns a value or raises; raised = "" means it returned.
Return(x) == [raised |-> "", ret |-> x]
Raise(kind) == [raised |-> kind, ret |-> None]

\* value[lo:hi] of Python, for the three slices the source takes.  Slicing
\* is defined on str and on list/tuple; anything else raises TypeError.
SliceOf(s, lo, hi) == [k \in 1..(IF hi > lo THEN hi - lo ELSE 0) |-> s[lo + k]]

DropLast(x) ==
    CASE x.type = "str" -> Return(Str(SliceOf(x.v, 0, Len(x.v) - 1)))
      [] x.type = "list" -> Return(List(SliceOf(x.items, 0, Len(x.items) - 1)))
      [] OTHER -> Raise("TypeError")

DropFirst(x) ==
    CASE x.type = "str" -> Return(Str(SliceOf(x.v, 1, Len(x.v))))
      [] x.type = "list" -> Return(List(SliceOf(x.items, 1, Len(x.items))))
      [] OTHER -> Raise("TypeError")

DropBoth(x) ==
    CASE x.type = "str" -> Return(Str(SliceOf(x.v, 1, Len(x.v) - 1)))
      [] x.type = "list" -> Return(List(SliceOf(x.items, 1, Len(x.items) - 1)))
      [] OTHER -> Raise("TypeError")

\* ------------------------------------------------------------------------
\* WHERE trees
\* ------------------------------------------------------------------------
AND == "AND"
OR == "OR"

\* self.query.model._meta.db_table
db_table == "tbl"

Node(connector, negated, children) ==
    [kind |-> "Node", connector |-> connector, negated |-> negated,
     children |-> children]

Leaf(alias, column, db_type, field, lookup_type, annotation, value) ==
    [kind |-> "tuple", alias |-> alias, column |-> column, db_type |-> db_type,
     field |-> field, lookup_type |-> lookup_type, annotation |-> annotation,
     value |-> value]

IsNode(child) == child.kind = "Node"
IsTuple(child) == child.kind = "tuple"

\* ------------------------------------------------------------------------
\* Errors
\* ------------------------------------------------------------------------
ONLY_AND == "DatabaseError: Only AND filters are supported."
NEGATED_SUBGROUP == "DatabaseError: When negating a whole filter subgroup the subgroup filters must be connected via OR"
NO_JOINS == "DatabaseError: This database doesn't support JOINs and multi-table inheritance."
NOT_A_LIST == "DatabaseError: Expected the filters value not to be a list."
INDEX_ERROR == "IndexError"
TYPE_ERROR == "TypeError"
ATTRIBUTE_ERROR == "AttributeError"
KEY_ERROR == "KeyError"

DatabaseErrors == {ONLY_AND, NEGATED_SUBGROUP, NO_JOINS, NOT_A_LIST}

\* ------------------------------------------------------------------------
\* NonrelQuery._get_children
\* ------------------------------------------------------------------------
\* A slip: every isnull leaf taken for an unneeded one.
Unneeded_AnyIsNull(child) == IsTuple(child) /\ child.lookup_type = "isnull"

\* A leaf that sql.Query added on its own: isnull on a constraint without
\* a field.
Unneeded(child) ==
    IsTuple(child) /\ child.lookup_type = "isnull" /\ child.field = "None"

\* The positions of `children` that _get_children keeps, in order.
RECURSIVE KeptFrom(_, _)
KeptFrom(children, i) ==
    IF i > Len(children) THEN <<>>
    ELSE (IF Unneeded(children[i]) THEN <<>> ELSE <<i>>)
         \o KeptFrom(children, i + 1)

KeptIndices(children) == KeptFrom(children, 1)

_get_children(children) ==
    LET kept == KeptIndices(children)
    IN [k \in 1..Len(kept) |-> children[kept[k]]]

\* ------------------------------------------------------------------------
\* NonrelQuery._normalize_lookup_value
\* ------------------------------------------------------------------------
\* A slip: only "in" keeps its list, as in _matches_filters.
UndoPrepLookup_InOnly(lookup_type, value, annotation) ==
    IF lookup_type # "in" /\ IsList(value)
    THEN IF Len(value.items) > 1 THEN Raise(NOT_A_LIST)
         ELSE IF lookup_type = "isnull" THEN Return(Bool(annotation))
         ELSE IF Len(value.items) = 0 THEN Raise(INDEX_ERROR)
         ELSE Return(value.items[1])
    ELSE Return(value)

\* Lines 145-157: undo Field.get_db_prep_lookup putting most values in a
\* list.
UndoPrepLookup(lookup_type, value, annotation) ==
    IF lookup_type \notin {"in", "range", "year"} /\ IsList(value)
    THEN IF Len(value.items) > 1 THEN Raise(NOT_A_LIST)
         ELSE IF lookup_type = "isnull" THEN Return(Bool(annotation))
         ELSE IF Len(value.items) = 0 THEN Raise(INDEX_ERROR)
         ELSE Return(value.items[1])
    ELSE Return(value)

\* Lines 159-166: remove the percents added by Field.get_db_prep_lookup.
RemovePercents(lookup_type, value) ==
    IF lookup_type \in {"startswith", "istartswith"} THEN DropLast(value)
    ELSE IF lookup_type \in {"endswith", "iendswith"} THEN DropFirst(value)
    ELSE IF lookup_type \in {"contains", "icontains"} THEN DropBoth(value)
    ELSE Return(value)

\* Lines 172-174: the DecimalField workaround calls
\* connection.ops.value_to_db_decimal(value, max_digits, decimal_places),
\* and NonrelDatabaseOperations.value_to_db_decimal (base.py) takes the
\* value alone, so the call raises (field.to_python, evaluated first, can
\* only raise earlier).
DecimalWorkaround(value, field) ==
    IF field = "DecimalField" THEN Raise(TYPE_ERROR) ELSE Return(value)

_normalize_lookup_value(lookup_type, value, field, annotation) ==
    LET undone == UndoPrepLookup(lookup_type, value, annotation)
    IN IF undone.raised # "" THEN undone
       ELSE LET stripped == RemovePercents(lookup_type, undone.ret)
            IN IF stripped.raised # "" THEN stripped
               ELSE DecimalWorkaround(stripped.ret, field)

\* ------------------------------------------------------------------------
\* NonrelQuery._decode_child
\* ------------------------------------------------------------------------
\* The arguments of one add_filter call.
Filter(column, lookup_type, negated, value, field, db_type) ==
    [column |-> column, lookup_type |-> lookup_type, negated |-> negated,
     value |-> value, field |-> field, db_type |-> db_type]

\* A slip: the comparison turned round.
ForeignAlias_Inverted(alias) == alias # "" /\ alias = db_table

\* `if alias and alias != db_table`: an empty alias is falsy.
ForeignAlias(alias) == alias # "" /\ alias # db_table

\* Returns (column, lookup_type, value, field, db_type); the negated slot
\* of the record is filled by add_filters.
_decode_child(child) ==
    IF ForeignAlias(child.alias) THEN Raise(NO_JOINS)
    ELSE LET value == _normalize_lookup_value(child.lookup_type, child.value,
                                              child.field, child.annotation)
         IN IF value.raised # "" THEN value
            ELSE Return(Filter(child.column, child.lookup_type, FALSE,
                               value.ret, child.field, child.db_type))

\* ------------------------------------------------------------------------
\* The inputs: leaves, trees, entities
\* ------------------------------------------------------------------------
LOOKUP_TYPES ==
    {"exact", "iexact", "startswith", "istartswith", "endswith", "iendswith",
     "contains", "icontains", "isnull", "in", "range", "year",
     "lt", "lte", "gt", "gte"}

\* constraint.field: None, a plain field, a DecimalField.
FIELDS == {"None", "CharField", "DecimalField"}

\* The alias constraint.process returns: none, the query's table, another.
ALIASES == {"", db_table, "other"}

COLUMNS == {"c1", "c2"}

PreparedAtoms == {Str(<<CHAR_a, PERCENT>>), Int(1), Date(1)}

RECURSIVE SeqsOfLen(_, _)
SeqsOfLen(S, n) ==
    IF n = 0 THEN {<<>>}
    ELSE {<<x>> \o s : x \in S, s \in SeqsOfLen(S, n - 1)}

SeqsUpTo(S, n) == UNION {SeqsOfLen(S, k) : k \in 0..n}

\* What constraint.process can return as the value: a list, as
\* Field.get_db_prep_lookup builds it, or a bare value (a field that
\* overrides get_db_prep_lookup).
PreparedValues ==
    {List(xs) : xs \in SeqsUpTo(PreparedAtoms, MaxSeqLen)} \cup PreparedAtoms

\* Every leaf shape; the annotation only matters to isnull.
LeafSpace ==
    {Leaf(a, "c1", "string", f, lt, ann, val) :
        a \in ALIASES, f \in FIELDS, lt \in LOOKUP_TYPES \ {"isnull"},
        ann \in {TRUE}, val \in PreparedValues}
    \cup
    {Leaf(a, "c1", "string", f, "isnull", ann, val) :
        a \in ALIASES, f \in FIELDS, ann \in BOOLEAN, val \in PreparedValues}

\* The leaves trees are built from: two ordinary comparisons, a leaf that
\* _get_children drops, a leaf of another table, a leaf with a list value.
LeafExact == Leaf(db_table, "c1", "string", "CharField", "exact", TRUE,
                  List(<<Str(<<CHAR_a>>)>>))
LeafLt == Leaf(db_table, "c2", "string", "CharField", "lt", TRUE,
               List(<<Int(1)>>))
LeafUnneeded == Leaf(db_table, "c1", "string", "None", "isnull", TRUE,
                     List(<<>>))
LeafJoin == Leaf("other", "c1", "string", "CharField", "exact", TRUE,
                 List(<<Str(<<CHAR_a>>)>>))
LeafTwoValues == Leaf(db_table, "c1", "string", "CharField", "exact", TRUE,
                      List(<<Int(1), Int(1)>>))

TreeLeaves == {LeafExact, LeafLt, LeafUnneeded, LeafJoin, LeafTwoValues}

\* Forests(n): the child lists holding n nodes and leaves in all;
\* NodesOfSize(n): the nodes holding n nodes and leaves, themselves included.
RECURSIVE Forests(_), NodesOfSize(_)
NodesOfSize(n) ==
    IF n = 0 THEN {}
    ELSE {Node(c, neg, ch) :
            c \in {AND, OR}, neg \in BOOLEAN, ch \in Forests(n - 1)}

Forests(n) ==
    IF n = 0 THEN {<<>>}
    ELSE UNION {
        {<<first>> \o rest :
            first \in (IF k = 1 THEN TreeLeaves ELSE {}) \cup NodesOfSize(k),
            rest \in Forests(n - k)} : k \in 1..n}

\* The WHERE trees a query may hold: every tree up to MaxSize over
\* TreeLeaves, and every leaf of LeafSpace under a root of its own.
WhereTrees ==
    UNION {NodesOfSize(n) : n \in 1..MaxSize}
    \cup {Node(AND, neg, <<leaf>>) : neg \in BOOLEAN, leaf \in LeafSpace}

\* The node or leaf at `path` (child positions from the root).
RECURSIVE At(_, _)
At(tree, path) ==
    IF path = <<>> THEN tree ELSE At(tree.children[Head(path)], Tail(path))

\* Records the in-memory filter is run on: columns holding a str, numbers
\* and None.
Entity(c1, c2) == [c1 |-> c1, c2 |-> c2]
Entities ==
    {Entity(Str(<<CHAR_a>>), Int(0)),
     Entity(Str(<<CHAR_a>>), Int(1)),
     Entity(None, Int(0)),
     Entity(Int(1), None)}

\* ------------------------------------------------------------------------
\* EMULATED_OPS
\* ------------------------------------------------------------------------
\* A call that returns a bool, or raises.
Yields(b) == [raised |-> "", ret |-> b]
Fails(kind) == [raised |-> kind, ret |-> FALSE]

IsNumber(x) == x.type \in {"int", "bool"}

\* Python's ==: numbers by value (True == 1), everything else by type and
\* content.
PyEq(x, y) ==
    IF IsNumber(x) /\ IsNumber(y) THEN x.v = y.v
    ELSE x.type = y.type /\ x = y

\* bool(y)
Truthy(y) ==
    CASE y.type = "none" -> FALSE
      [] IsNumber(y) -> y.v[1] # 0
      [] y.type = "str" -> Len(y.v) > 0
      [] y.type = "list" -> Len(y.items) > 0
      [] OTHER -> TRUE

\* str.lower() on the characters of the model.
LowerChar(c) == IF c = CHAR_A THEN CHAR_a ELSE c
Lower(s) == [k \in 1..Len(s) |-> LowerChar(s[k])]

\* s.startswith(t)
StartsWith(s, t) ==
    Len(t) <= Len(s) /\ \A k \in 1..Len(t) : s[k] = t[k]

\* t in s, for two strs
Substring(s, t) ==
    \E off \in 0..Len(s) :
        off + Len(t) <= Len(s) /\ \A k \in 1..Len(t) : s[off + k] = t[k]

\* cmp of two sequences of naturals: "lt", "eq" or "gt".
RECURSIVE CmpSeq(_, _)
CmpSeq(s, t) ==
    IF s = <<>> THEN (IF t = <<>> THEN "eq" ELSE "lt")
    ELSE IF t = <<>> THEN "gt"
    ELSE IF Head(s) < Head(t) THEN "lt"
    ELSE IF Head(s) > Head(t) THEN "gt"
    ELSE CmpSeq(Tail(s), Tail(t))

\* Python 2 orders values of different types: None first, then numbers,
\* then the others by the name of their type.
TypeRank(x) ==
    CASE x.type = "none" -> 0
      [] IsNumber(x) -> 1
      [] x.type = "list" -> 2
      [] OTHER -> 3

\* cmp(x, y) as <, <=, > and >= see it; a date compared with anything but
\* a date raises TypeError.
RECURSIVE CmpItems(_, _)
PyCmp(x, y) ==
    IF x.type = "date" \/ y.type = "date"
    THEN IF x.type = y.type THEN CmpSeq(x.v, y.v) ELSE TYPE_ERROR
    ELSE IF TypeRank(x) < TypeRank(y) THEN "lt"
    ELSE IF TypeRank(x) > TypeRank(y) THEN "gt"
    ELSE IF x.type = "list" THEN CmpItems(x.items, y.items)
    ELSE CmpSeq(x.v, y.v)

CmpItems(xs, ys) ==
    IF xs = <<>> THEN (IF ys = <<>> THEN "eq" ELSE "lt")
    ELSE IF ys = <<>> THEN "gt"
    ELSE LET c == PyCmp(Head(xs), Head(ys))
         IN IF c = "eq" THEN CmpItems(Tail(xs), Tail(ys)) ELSE c

Compare(x, y, accepted) ==
    LET c == PyCmp(x, y)
    IN IF c = TYPE_ERROR THEN Fails(TYPE_ERROR) ELSE Yields(c \in accepted)

\* EMULATED_OPS[lookup_type](x, y); a lookup type the table lacks is a
\* KeyError.
EMULATED_OPS(lookup_type, x, y) ==
    CASE lookup_type = "exact" ->
            IF IsList(x)
            THEN Yields(\E k \in 1..Len(x.items) : PyEq(x.items[k], y))
            ELSE Yields(PyEq(x, y))
      [] lookup_type = "iexact" ->
            IF x.type # "str" \/ y.type # "str" THEN Fails(ATTRIBUTE_ERROR)
            ELSE Yields(Lower(x.v) = Lower(y.v))
      [] lookup_type = "startswith" ->
            IF x.type # "str" THEN Fails(ATTRIBUTE_ERROR)
            ELSE IF y.type # "str" THEN Fails(TYPE_ERROR)
            ELSE Yields(StartsWith(x.v, y.v))
      [] lookup_type = "istartswith" ->
            IF x.type # "str" \/ y.type # "str" THEN Fails(ATTRIBUTE_ERROR)
            ELSE Yields(StartsWith(Lower(x.v), Lower(y.v)))
      [] lookup_type = "isnull" ->
            IF Truthy(y) THEN Yields(x = None) ELSE Yields(x # None)
      [] lookup_type = "in" ->
            IF IsList(y)
            THEN Yields(\E k \in 1..Len(y.items) : PyEq(x, y.items[k]))
            ELSE IF y.type = "str" /\ x.type = "str"
            THEN Yields(Substring(y.v, x.v))
            ELSE Fails(TYPE_ERROR)
      [] lookup_type = "lt" -> Compare(x, y, {"lt"})
      [] lookup_type = "lte" -> Compare(x, y, {"lt", "eq"})
      [] lookup_type = "gt" -> Compare(x, y, {"gt"})
      [] lookup_type = "gte" -> Compare(x, y, {"gt", "eq"})
      [] OTHER -> Fails(KEY_ERROR)

\* ------------------------------------------------------------------------
\* NonrelQuery._matches_filters
\* ------------------------------------------------------------------------
\* Lines 221-230: the unwrapping of the prepared value.
MatchValue(lookup_type, value, annotation) ==
    IF lookup_type # "in" /\ IsList(value)
    THEN IF Len(value.items) > 1 THEN Raise(NOT_A_LIST)
         ELSE IF lookup_type = "isnull" THEN Return(Bool(annotation))
         ELSE IF Len(value.items) = 0 THEN Raise(INDEX_ERROR)
         ELSE Return(value.items[1])
    ELSE Return(value)

\* A slip: a None column compared with a date also matches gt and gte.
Submatch_DateAnyOrder(lookup_type, x, value) ==
    IF x = None
    THEN IF value.type = "date"
         THEN Yields(lookup_type \in {"lt", "lte", "gt", "gte"})
         ELSE IF lookup_type \in {"startswith", "contains", "endswith",
                                  "iexact", "istartswith", "icontains",
                                  "iendswith"}
         THEN Yields(FALSE)
         ELSE EMULATED_OPS(lookup_type, x, value)
    ELSE EMULATED_OPS(lookup_type, x, value)

\* Lines 232-241: the match of one column value against one lookup value.
Submatch(lookup_type, x, value) ==
    IF x = None
    THEN IF value.type = "date" THEN Yields(lookup_type \in {"lt", "lte"})
         ELSE IF lookup_type \in {"startswith", "contains", "endswith",
                                  "iexact", "istartswith", "icontains",
                                  "iendswith"}
         THEN Yields(FALSE)
         ELSE EMULATED_OPS(lookup_type, x, value)
    ELSE EMULATED_OPS(lookup_type, x, value)

\* Lines 212-241: one leaf.
MatchLeaf(record, child) ==
    IF child.alias # db_table THEN Fails(NO_JOINS)
    ELSE LET value == MatchValue(child.lookup_type, child.value,
                                 child.annotation)
         IN IF value.raised # "" THEN Fails(value.raised)
            ELSE IF child.column \notin DOMAIN record THEN Fails(KEY_ERROR)
            ELSE Submatch(child.lookup_type, record[child.column], value.ret)

\* A slip: the connectors of lines 243 and 246 exchanged.
Breaks_Exchanged(connector, submatch) ==
    \/ connector = AND /\ submatch
    \/ connector = OR /\ ~submatch

\* Lines 243-248: the child's match decides the node and ends the loop.
Breaks(connector, submatch) ==
    \/ connector = OR /\ submatch
    \/ connector = AND /\ ~submatch

\* A slip: the negated bit of the node is not applied.
ApplyNegated_Dropped(node_negated, result) == result

\* Lines 250-252: the node's negated bit applied to the loop's result.
ApplyNegated(node_negated, result) ==
    IF node_negated THEN ~result ELSE result

\* The result of a call: what it raised or returned, and the leaves it
\* evaluated, by path, in order.
Outcome(kind, ret, evaluated) ==
    [raised |-> kind, ret |-> ret, evaluated |-> evaluated, ran |-> TRUE]

\* MatchChildren is the loop of lines 208-248 from child i on.
RECURSIVE MatchNode(_, _, _), MatchChildren(_, _, _, _, _)
MatchNode(record, node, path) ==
    IF node.children = <<>> THEN Outcome("", TRUE, <<>>)
    ELSE LET loop == MatchChildren(record, node, path, 1, <<>>)
         IN IF loop.raised # "" THEN loop
            ELSE Outcome("", ApplyNegated(node.negated, loop.ret),
                         loop.evaluated)

MatchChildren(record, node, path, i, evaluated) ==
    IF i > Len(node.children)
    THEN Outcome("", node.connector = AND, evaluated)
    ELSE LET child == node.children[i]
             sub == IF IsNode(child)
                    THEN MatchNode(record, child, path \o <<i>>)
                    ELSE LET leaf == MatchLeaf(record, child)
                         IN Outcome(leaf.raised, leaf.ret, <<path \o <<i>>>>)
             seen == evaluated \o sub.evaluated
         IN IF sub.raised # "" THEN Outcome(sub.raised, FALSE, seen)
            ELSE IF Breaks(node.connector, sub.ret)
            THEN Outcome("", node.connector = OR, seen)
            ELSE MatchChildren(record, node, path, i + 1, seen)

_matches_filters(record, node) == MatchNode(record, node, <<>>)

\* ------------------------------------------------------------------------
\* State
\* ------------------------------------------------------------------------
VARIABLES
    filters,    \* self.query.where, the tree handed to add_filters
    pc,         \* "idle", "add_filters", "done" (returned), "raised"
    _negated,   \* NonrelQuery._negated
    stack,      \* the add_filters activations, innermost first
    calls,      \* the add_filter calls made so far, in order
    raised,     \* the exception add_filters ended with, "" if none
    raisedAt,   \* the node or leaf it was raised at
    visited,    \* the nodes add_filters was called on, in order, each with
                \* _negated as lines 83-84 left it
    entity,     \* the record _matches_filters was run on
    matched     \* what _matches_filters did

\* NonrelDatabaseOperations converting the value of one field.
VARIABLES
    column_field, \* the field the value belongs to
    python_value, \* the value the field hands over for storage
    db_value,   \* what the database holds for it
    damage,     \* what happened to the stored data since it was written
    loaded,     \* what value_from_db did with the stored data
    prepared,   \* a lookup value and what value_for_db did with it
    phase       \* "none", "new", "stored", "loaded", "prepared"

\* NonrelCompiler running one call on its sql.Query.
VARIABLES
    query,      \* self.query: marks, ordering, what check_query reads
    DEBUG,      \* settings.DEBUG
    running,    \* the call: "none", "idle", "get_count", "has_results",
                \* "results_iter"
    step,       \* where the call is: "", "add_filters", "count", "fetch",
                \* "rows", "returned", "raised"
    check_exists, \* the check_exists argument of get_count
    high_mark,  \* the local high_mark of get_count
    selected,   \* the fields get_fields returned
    built,      \* how many NonrelQuery objects build_query has made
    driver,     \* the calls made on the back-end's queries, in order, each
                \* with the object it is made on
    queries,    \* connection.queries
    fetched,    \* the entities fetch returned that are not yet decoded
    results,    \* what the call returned or has yielded so far
    failure     \* the exception the call ended with, "" if none

\* NonrelInsertCompiler.execute_sql going through the values of its query.
VARIABLES
    position,   \* the pair of zip(query.values, query.columns) the loop is at
    insert_data, \* the data dict built so far
    encoded     \* the convert_value_for_db calls made so far, in order

\* NonrelCompiler.execute_sql and check_aggregate_support.
VARIABLES
    aggregate_select, \* self.query.aggregate_select.values()
    result_type, \* the result_type argument of execute_sql
    aggregate   \* the argument of check_aggregate_support

\* NonrelDatabaseCreation of the connections, and the fields they look at.
VARIABLES
    features,   \* connection.features.has_key_type of each connection
    _db_info,   \* field._db_info of each field object, None if not set
    db_infos    \* the db_info calls made so far and what they returned

\* One permission-list object (UserPermissionList or GroupPermissionList) as
\* stored, and the call of auth/utils.py last made on it.
VARIABLES
    permission_list,    \* the 'app_label.codename' strings
    permission_fk_list, \* the permission ids
    perm_calls,         \* the number of calls made so far
    perm_raised         \* the exception the last call ended in, "" if none

queryVars == <<filters, pc, _negated, stack, calls, raised, raisedAt, visited,
               entity, matched>>
compilerVars == <<query, DEBUG, running, step, check_exists, high_mark,
                  selected, built, driver, queries, fetched, results,
                  failure>>
opsVars == <<column_field, python_value, db_value, damage, loaded, prepared,
             phase>>

insertVars == <<position, insert_data, encoded>>
aggregateVars == <<aggregate_select, result_type, aggregate>>
creationVars == <<features, _db_info, db_infos>>
permVars == <<permission_list, permission_fk_list, perm_calls, perm_raised>>
moreVars == <<insertVars, aggregateVars, creationVars, permVars>>
notInsertVars == <<aggregateVars, creationVars, permVars>>
notAggregateVars == <<insertVars, creationVars, permVars>>
notCreationVars == <<insertVars, aggregateVars, permVars>>
notPermVars == <<insertVars, aggregateVars, creationVars>>

vars == <<queryVars, opsVars, compilerVars, moreVars>>

NoEntity == [c \in COLUMNS |-> None]
NotRun == [raised |-> "", ret |-> FALSE, evaluated |-> <<>>, ran |-> FALSE]

\* No value is being converted.
NotDone == [raised |-> "", ret |-> None, ran |-> FALSE, of |-> None]
OpsIdle ==
    /\ column_field = None
    /\ python_value = None
    /\ db_value = None
    /\ damage = ""
    /\ loaded = NotDone
    /\ prepared = NotDone
    /\ phase = "none"

\* The compiler is not looked at: its query object is given.
CompilerIdle ==
    /\ query = None
    /\ DEBUG = FALSE
    /\ running = "none"
    /\ step = ""
    /\ check_exists = FALSE
    /\ high_mark = None
    /\ selected = <<>>
    /\ built = 0
    /\ driver = <<>>
    /\ queries = <<>>
    /\ fetched = <<>>
    /\ results = <<>>
    /\ failure = ""

\* No insert is compiled.
InsertIdle ==
    /\ position = 0
    /\ insert_data = <<>>
    /\ encoded = <<>>

\* No aggregate is asked for.
AggregateIdle ==
    /\ aggregate_select = <<>>
    /\ result_type = ""
    /\ aggregate = None

\* No connection is looked at.
CreationIdle ==
    /\ features = <<>>
    /\ _db_info = <<>>
    /\ db_infos = <<>>

\* No permission-list object is looked at.
PermIdle ==
    /\ permission_list = <<>>
    /\ permission_fk_list = <<>>
    /\ perm_calls = 0
    /\ perm_raised = ""

MoreIdle == InsertIdle /\ AggregateIdle /\ CreationIdle /\ PermIdle

\* NonrelQuery.__init__ on the compiler's query.
Init ==
    /\ filters \in WhereTrees
    /\ pc = "idle"
    /\ _negated = FALSE
    /\ stack = <<>>
    /\ calls = <<>>
    /\ raised = ""
    /\ raisedAt = <<>>
    /\ visited = <<>>
    /\ entity = NoEntity
    /\ matched = NotRun
    /\ OpsIdle
    /\ CompilerIdle
    /\ MoreIdle

\* ------------------------------------------------------------------------
\* NonrelQuery.add_filters
\* ------------------------------------------------------------------------
\* A slip: the flag is set, not flipped.
ToggleNegated_Sets(node_negated, flag) == IF node_negated THEN TRUE ELSE flag

\* Lines 83-84: `if filters.negated: self._negated = not self._negated`.
ToggleNegated(node_negated, flag) == IF node_negated THEN ~flag ELSE flag

\* A slip: lines 108-109 left out.
RestoreNegated_Forgotten(node_negated, flag) == flag

\* Lines 108-109: the same statement again, after the loop.
RestoreNegated(node_negated, flag) == IF node_negated THEN ~flag ELSE flag

\* A slip: the `not` of line 86 left out.
NotOnlyAnd_Inverted(flag, connector) == flag /\ connector # AND

\* Line 86.
NotOnlyAnd(flag, connector) == ~flag /\ connector # AND

\* Slips in line 92: a wrong count, a wrong comparison, the connector
\* forgotten.
NegatedConjunction_OffByOne(flag, connector, children) ==
    flag /\ connector # OR /\ Len(children) > 2

NegatedConjunction_AtLeastOne(flag, connector, children) ==
    flag /\ connector # OR /\ Len(children) >= 1

NegatedConjunction_AnyConnector(flag, connector, children) ==
    flag /\ Len(children) > 1

\* Line 92.
NegatedConjunction(flag, connector, children) ==
    flag /\ connector # OR /\ Len(children) > 1

\* An exception leaves every activation of add_filters at once: no
\* activation catches it, and none runs its lines 108-109.
Propagate(kind, path) ==
    /\ pc' = "raised"
    /\ raised' = kind
    /\ raisedAt' = path
    /\ stack' = <<>>

\* Lines 83-97 of the activation for `node`, called from `callers`.
Enter(node, path, callers) ==
    LET flag == ToggleNegated(node.negated, _negated)
        children == _get_children(node.children)
    IN /\ _negated' = flag
       /\ visited' = Append(visited, [at |-> path, flag |-> flag])
       /\ IF NotOnlyAnd(flag, node.connector)
          THEN Propagate(ONLY_AND, path)
          ELSE IF NegatedConjunction(flag, node.connector, children)
          THEN Propagate(NEGATED_SUBGROUP, path)
          ELSE /\ pc' = "add_filters"
               /\ stack' = <<[path |-> path,
                              children |-> children,
                              kept |-> KeptIndices(node.children),
                              i |-> 1,
                              entry |-> _negated]>> \o callers
               /\ UNCHANGED <<raised, raisedAt>>
       /\ UNCHANGED <<filters, calls, entity, matched>>

\* The path of the child the innermost activation is at.
ChildPath(frame) == frame.path \o <<frame.kept[frame.i]>>

\* NonrelCompiler.build_query: query.add_filters(self.query.where) on the
\* query object it has just made.
Call ==
    /\ pc = "idle"
    /\ ~matched.ran
    /\ Enter(filters, <<>>, <<>>)
    /\ UNCHANGED <<opsVars, compilerVars, moreVars>>

\* Lines 101-104: the child is a Node, add_filters recurses.
Descend ==
    /\ pc = "add_filters"
    /\ LET frame == Head(stack)
       IN /\ frame.i <= Len(frame.children)
          /\ IsNode(frame.children[frame.i])
          /\ Enter(frame.children[frame.i], ChildPath(frame), stack)
    /\ UNCHANGED <<opsVars, compilerVars, moreVars>>

\* Lines 105-106: the child is a leaf, decoded and handed to add_filter.
Dispatch ==
    /\ pc = "add_filters"
    /\ LET frame == Head(stack)
       IN /\ frame.i <= Len(frame.children)
          /\ IsTuple(frame.children[frame.i])
          /\ LET decoded == _decode_child(frame.children[frame.i])
             IN IF decoded.raised # ""
                THEN /\ Propagate(decoded.raised, ChildPath(frame))
                     /\ UNCHANGED calls
                ELSE /\ calls' = Append(calls,
                            [args |-> [decoded.ret EXCEPT !.negated = _negated],
                             at |-> ChildPath(frame)])
                     /\ stack' = <<[frame EXCEPT !.i = frame.i + 1]>>
                                   \o Tail(stack)
                     /\ UNCHANGED <<pc, raised, raisedAt>>
    /\ UNCHANGED <<filters, _negated, visited, entity, matched>>
    /\ UNCHANGED <<opsVars, compilerVars, moreVars>>

\* Lines 108-109, and the return to the caller's loop (line 104).
Leave ==
    /\ pc = "add_filters"
    /\ LET frame == Head(stack)
           callers == Tail(stack)
       IN /\ frame.i > Len(frame.children)
          /\ _negated' = RestoreNegated(At(filters, frame.path).negated, _negated)
          /\ IF callers = <<>>
             THEN /\ pc' = "done"
                  /\ stack' = <<>>
             ELSE /\ pc' = pc
                  /\ stack' = <<[Head(callers) EXCEPT !.i = Head(callers).i + 1]>>
                                \o Tail(callers)
    /\ UNCHANGED <<filters, calls, raised, raisedAt, visited, entity, matched>>
    /\ UNCHANGED <<opsVars, compilerVars, moreVars>>

\* A back-end filtering in memory: _matches_filters(entity, query.where)
\* on a fetched record.
Matches ==
    /\ pc \in {"idle", "done"}
    /\ ~matched.ran
    /\ \E record \in Entities :
        /\ entity' = record
        /\ matched' = _matches_filters(record, filters)
    /\ UNCHANGED <<filters, pc, _negated, stack, calls, raised, raisedAt,
                   visited>>
    /\ UNCHANGED <<opsVars, compilerVars, moreVars>>

Next ==
    \/ Call
    \/ Descend
    \/ Dispatch
    \/ Leave
    \/ Matches

Spec == Init /\ [][Next]_vars

\* ------------------------------------------------------------------------
\* Vocabulary of the properties
\* ------------------------------------------------------------------------
IsPrefix(p, q) == Len(p) <= Len(q) /\ \A k \in 1..Len(p) : p[k] = q[k]

Parent(path) == SubSeq(path, 1, Len(path) - 1)

\* The number of negated nodes among the first n nodes on the way from the
\* root down `path` (the root is the first).
RECURSIVE NegatedAbove(_, _, _)
NegatedAbove(tree, path, n) ==
    IF n = 0 THEN 0
    ELSE (IF tree.negated THEN 1 ELSE 0)
         + (IF n = 1 THEN 0
            ELSE NegatedAbove(tree.children[Head(path)], Tail(path), n - 1))

\* The negated ancestors of the leaf at `path`, the root included.
NegatedAncestors(path) == NegatedAbove(filters, path, Len(path))

\* The children of a node that are not isnull leaves without a field.
Remaining(node) ==
    {k \in 1..Len(node.children) :
        ~(/\ node.children[k].kind = "tuple"
          /\ node.children[k].lookup_type = "isnull"
          /\ node.children[k].field = "None")}

\* The paths of the leaves of a tree, depth first and left to right.
RECURSIVE LeafPaths(_, _), LeafPathsFrom(_, _, _)
LeafPaths(tree, path) ==
    IF tree.kind = "tuple" THEN <<path>> ELSE LeafPathsFrom(tree, path, 1)

LeafPathsFrom(node, path, k) ==
    IF k > Len(node.children) THEN <<>>
    ELSE LeafPaths(node.children[k], path \o <<k>>)
         \o LeafPathsFrom(node, path, k + 1)

CallPaths == [k \in 1..Len(calls) |-> calls[k].at]

\* ------------------------------------------------------------------------
\* C1.  A node of connector AND that add_filters visits with the negation
\* flag true (its own negated bit applied) and with two or more children
\* left after pruning raises the DatabaseError of the negated subgroup, at
\* that node, and no add_filter call has been made for a leaf below it.
\* ------------------------------------------------------------------------
C1_NegatedAndRaises ==
    \A k \in 1..Len(visited) :
        LET node == At(filters, visited[k].at)
        IN (/\ visited[k].flag
            /\ node.connector = AND
            /\ Cardinality(Remaining(node)) >= 2)
           => /\ pc = "raised"
              /\ raised = NEGATED_SUBGROUP
              /\ raised \in DatabaseErrors
              /\ raisedAt = visited[k].at
              /\ k = Len(visited)
              /\ \A c \in 1..Len(calls) : ~IsPrefix(visited[k].at, calls[c].at)

\* A negated AND node with two children left has raised.
C1_Witness ==
    /\ pc = "raised"
    /\ raised = NEGATED_SUBGROUP
    /\ calls = <<>>
    /\ At(filters, raisedAt).connector = AND
    /\ Cardinality(Remaining(At(filters, raisedAt))) = 2
    /\ _negated

\* ------------------------------------------------------------------------
\* C2.  For the tree NOT(a OR b), a and b being ordinary comparisons on the
\* query's table (one prepared value each), add_filters on a new query does
\* not raise and, once it has returned, has called add_filter exactly twice:
\* for a, then for b, each with negated = TRUE.
\* ------------------------------------------------------------------------
\* A leaf such as column = 'x': on the query's table, one prepared value.
Comparison(leaf) ==
    /\ leaf.kind = "tuple"
    /\ leaf.alias = db_table
    /\ leaf.lookup_type \in {"exact", "lt", "lte", "gt", "gte"}
    /\ leaf.field = "CharField"
    /\ leaf.value.type = "list"
    /\ Len(leaf.value.items) = 1

NotAOrB(tree) ==
    /\ tree.negated
    /\ tree.connector = OR
    /\ Len(tree.children) = 2
    /\ Comparison(tree.children[1])
    /\ Comparison(tree.children[2])

\* The add_filter arguments of a comparison leaf.
Negation(leaf) ==
    [column |-> leaf.column, lookup_type |-> leaf.lookup_type,
     negated |-> TRUE, value |-> leaf.value.items[1], field |-> leaf.field,
     db_type |-> leaf.db_type]

C3_NegationComposesByXor ==
    \A k \in 1..Len(calls) :
        LET leaf == At(filters, calls[k].at)
        IN /\ calls[k].args.negated = (NegatedAncestors(calls[k].at) % 2 = 1)
           /\ [calls[k].args EXCEPT !.negated = FALSE] = _decode_child(leaf).ret

\* A leaf under two nested negated nodes was dispatched with negated = FALSE.
C3_Witness ==
    \E k \in 1..Len(calls) :
        /\ NegatedAncestors(calls[k].at) = 2
        /\ ~calls[k].args.negated

\* ------------------------------------------------------------------------
\* C4.  A node of connector OR that add_filters visits with the negation
\* flag false (its own negated bit applied) raises DatabaseError('Only AND
\* filters are supported.') at that node, whatever its children, and no
\* add_filter call has been made for a leaf below it.
\* ------------------------------------------------------------------------
C4_OnlyAndWithoutNegation ==
    \A k \in 1..Len(visited) :
        LET node == At(filters, visited[k].at)
        IN (~visited[k].flag /\ node.connector # AND)
           => /\ pc = "raised"
              /\ raised = ONLY_AND
              /\ raised \in DatabaseErrors
              /\ raisedAt = visited[k].at
              /\ k = Len(visited)
              /\ \A c \in 1..Len(calls) : ~IsPrefix(visited[k].at, calls[c].at)

\* An OR node without children, below the root, has raised.
C4_Witness ==
    /\ pc = "raised"
    /\ raised = ONLY_AND
    /\ raisedAt # <<>>
    /\ At(filters, raisedAt).connector = OR
    /\ At(filters, raisedAt).children = <<>>
    /\ ~_negated

\* ------------------------------------------------------------------------
\* C5.  As claimed: a node visited with the negation flag true and a
\* connector other than OR is accepted exactly when one child is left after
\* pruning.  As amended: exactly when at most one child is left (none or
\* one); with two or more it raises the DatabaseError of the negated
\* subgroup.
\* ------------------------------------------------------------------------
\* add_filters raised at the node itself (lines 83-97).
RejectedAt(path) ==
    pc = "raised" /\ raisedAt = path /\ raised \in DatabaseErrors

C5_AcceptedIffExactlyOne ==
    \A k \in 1..Len(visited) :
        LET node == At(filters, visited[k].at)
        IN (visited[k].flag /\ node.connector # OR)
           => (~RejectedAt(visited[k].at) <=> Cardinality(Remaining(node)) = 1)

C5_AcceptedIffAtMostOne ==
    \A k \in 1..Len(visited) :
        LET node == At(filters, visited[k].at)
        IN (visited[k].flag /\ node.connector # OR)
           => /\ ~RejectedAt(visited[k].at) <=> Cardinality(Remaining(node)) <= 1
              /\ RejectedAt(visited[k].at) => raised = NEGATED_SUBGROUP

\* A negated AND node whose only child was pruned has been translated.
C5_Witness ==
    /\ pc = "done"
    /\ \E k \in 1..Len(visited) :
          LET node == At(filters, visited[k].at)
          IN /\ visited[k].flag
             /\ node.connector = AND
             /\ Len(node.children) = 1
             /\ Remaining(node) = {}

\* ------------------------------------------------------------------------
\* C6.  _negated is false on a new query; every normal return of add_filters
\* from a node, at any depth, leaves _negated as it was just before that
\* node was entered; so it is false again once the whole tree is translated.
\* ------------------------------------------------------------------------
\* The innermost activation has run its loop to the end and returns next.
Returning ==
    /\ pc = "add_filters"
    /\ Head(stack).i > Len(Head(stack).children)

C6_FlagRestoredOnReturn ==
    /\ (pc = "idle" => ~_negated)
    /\ [][Returning => _negated' = Head(stack).entry]_vars
    /\ [](pc = "done" => ~_negated)

\* A tree with a negated node below a negated root has been translated.
C6_Witness ==
    /\ pc = "done"
    /\ ~_negated
    /\ \E k \in 1..Len(visited) :
          /\ visited[k].at # <<>>
          /\ At(filters, visited[k].at).negated
          /\ filters.negated

\* ------------------------------------------------------------------------
\* C7.  Once add_filters has returned from the root, the add_filter calls
\* are, in order, one for each leaf of the tree taken depth first and left
\* to right, the pruned leaves left out; a leaf is pruned exactly when it
\* is an isnull lookup on a constraint without a field; and the negated
\* subgroup error depends on the children left after pruning alone.
\* ------------------------------------------------------------------------
Pruned(leaf) == leaf.lookup_type = "isnull" /\ leaf.field = "None"

UnprunedLeafPaths ==
    SelectSeq(LeafPaths(filters, <<>>), LAMBDA p : ~Pruned(At(filters, p)))

C7_EveryLeafOnceInOrder ==
    /\ pc = "done" => CallPaths = UnprunedLeafPaths
    /\ \A k \in 1..Len(visited) :
          LET node == At(filters, visited[k].at)
          IN (visited[k].flag /\ node.connector # OR /\ raised = NEGATED_SUBGROUP
                /\ raisedAt = visited[k].at)
             => Cardinality(Remaining(node)) > 1
    /\ pc = "done" =>
          \A k \in 1..Len(visited) :
              LET node == At(filters, visited[k].at)
              IN (visited[k].flag /\ node.connector # OR)
                 => Cardinality(Remaining(node)) <= 1

\* A negated AND node of two leaves, one of them pruned, was translated
\* with a single add_filter call.
C7_Witness ==
    /\ pc = "done"
    /\ filters.negated
    /\ filters.connector = AND
    /\ Len(filters.children) = 2
    /\ Len(LeafPaths(filters, <<>>)) = 2
    /\ Len(calls) = 1

\* ------------------------------------------------------------------------
\* C8.  As claimed: every leaf whose alias is not the query's db_table is
\* rejected, _decode_child raising DatabaseError, and never reaches
\* add_filter.  As amended: every leaf that add_filters decodes (a leaf
\* _get_children has not pruned) and whose alias is non-empty and not the
\* query's db_table is rejected with the DatabaseError about JOINs and
\* never reaches add_filter; a leaf without an alias is decoded as a leaf
\* of the query's own table.
\* ------------------------------------------------------------------------
\* The leaf add_filters raised at, if it raised at a leaf.
RaisedAtLeaf == pc = "raised" /\ At(filters, raisedAt).kind = "tuple"

C8_EveryOtherAliasRejected ==
    /\ \A k \in 1..Len(calls) : At(filters, calls[k].at).alias = db_table
    /\ pc = "done" =>
          \A k \in 1..Len(LeafPaths(filters, <<>>)) :
              At(filters, LeafPaths(filters, <<>>)[k]).alias = db_table

C8_OtherTableRejected ==
    /\ \A k \in 1..Len(calls) :
          At(filters, calls[k].at).alias \in {"", db_table}
    /\ RaisedAtLeaf =>
          (At(filters, raisedAt).alias \notin {"", db_table}
              <=> raised = NO_JOINS)
    /\ NO_JOINS \in DatabaseErrors
    /\ pc = "done" =>
          \A k \in 1..Len(UnprunedLeafPaths) :
              At(filters, UnprunedLeafPaths[k]).alias \in {"", db_table}

\* A leaf of another table stopped the translation after an earlier leaf
\* had been dispatched.
C8_Witness ==
    /\ RaisedAtLeaf
    /\ raised = NO_JOINS
    /\ At(filters, raisedAt).alias = "other"
    /\ Len(calls) = 1

\* ------------------------------------------------------------------------
\* C9.  _normalize_lookup_value on a list value.  For a lookup type other
\* than in, range and year: more than one element raises the DatabaseError
\* about lists; exactly one element is replaced by that element, or by the
\* annotation for isnull, and that is what the later steps of the function
\* (percent removal, decimal workaround) receive.  For in, range and year
\* the list goes to the later steps whole, and what add_filter receives has
\* all its elements.
\* ------------------------------------------------------------------------
\* Lines 159-176 applied to the value lines 145-157 left.
LaterSteps(lookup_type, value, field) ==
    LET stripped == RemovePercents(lookup_type, value)
    IN IF stripped.raised # "" THEN stripped
       ELSE DecimalWorkaround(stripped.ret, field)

\* What _decode_child did for the leaf of the k-th add_filter call.
Dispatched(k) == Return(calls[k].args.value)

SameOutcome(got, want) ==
    /\ got.raised = want.raised
    /\ got.raised = "" =>
          /\ got.ret.type = want.ret.type
          /\ got.ret = want.ret

C9_Expected(leaf, got) ==
    LET value == leaf.value
        lookup_type == leaf.lookup_type
    IN (value.type = "list" /\ leaf.alias \in {"", db_table}) =>
        IF lookup_type \notin {"in", "range", "year"}
        THEN /\ Len(value.items) > 1 =>
                    got.raised = NOT_A_LIST /\ got.raised \in DatabaseErrors
             /\ Len(value.items) = 1 =>
                    SameOutcome(got,
                        LaterSteps(lookup_type,
                                   IF lookup_type = "isnull"
                                   THEN Bool(leaf.annotation)
                                   ELSE value.items[1],
                                   leaf.field))
        ELSE /\ SameOutcome(got, LaterSteps(lookup_type, value, leaf.field))
             /\ got.raised = "" =>
                    /\ got.ret.type = "list"
                    /\ got.ret.items = value.items

C9_ListValuesUnwrapped ==
    /\ \A k \in 1..Len(calls) :
          C9_Expected(At(filters, calls[k].at), Dispatched(k))
    /\ RaisedAtLeaf => C9_Expected(At(filters, raisedAt), Raise(raised))

\* A range lookup was dispatched with both its bounds.
C9_Witness ==
    \E k \in 1..Len(calls) :
        /\ At(filters, calls[k].at).lookup_type = "range"
        /\ calls[k].args.value.type = "list"
        /\ Len(calls[k].args.value.items) = 2

\* ------------------------------------------------------------------------
\* C10.  _matches_filters on a node that is not negated and has children:
\* the children are evaluated from the left up to the first one that
\* raises or decides (a non-match under AND, a match under OR) and no
\* further; the result is the conjunction under AND, the disjunction under
\* OR, of the matches of the children evaluated, unless one raised.  On a
\* node that is not negated and has no children it is TRUE.
\* ------------------------------------------------------------------------
\* _matches_filters on the k-th child of the root.
ChildMatch(k) ==
    LET child == filters.children[k]
    IN IF child.kind = "Node" THEN MatchNode(entity, child, <<k>>)
       ELSE LET leaf == MatchLeaf(entity, child)
            IN Outcome(leaf.raised, leaf.ret, <<<<k>>>>)

\* The children that end the loop: they raise, or they decide.
Stops ==
    {k \in 1..Len(filters.children) :
        \/ ChildMatch(k).raised # ""
        \/ ChildMatch(k).ret = (filters.connector = OR)}

LastEvaluated ==
    IF Stops = {} THEN Len(filters.children)
    ELSE CHOOSE k \in Stops : \A j \in Stops : k <= j

RECURSIVE EvaluatedUpTo(_)
EvaluatedUpTo(k) ==
    IF k = 0 THEN <<>> ELSE EvaluatedUpTo(k - 1) \o ChildMatch(k).evaluated

C10_ConnectorReduction ==
    (matched.ran /\ ~filters.negated) =>
        IF filters.children = <<>>
        THEN matched.raised = "" /\ matched.ret = TRUE
        ELSE /\ matched.evaluated = EvaluatedUpTo(LastEvaluated)
             /\ matched.raised = ChildMatch(LastEvaluated).raised
             /\ matched.raised = "" =>
                   matched.ret =
                      IF filters.connector = AND
                      THEN \A k \in 1..LastEvaluated : ChildMatch(k).ret
                      ELSE \E k \in 1..LastEvaluated : ChildMatch(k).ret

\* An AND node returned FALSE at its first child; its second child, a leaf
\* of another table, would have raised.
C10_Witness ==
    /\ matched.ran
    /\ ~filters.negated
    /\ filters.connector = AND
    /\ Len(filters.children) = 2
    /\ matched.raised = ""
    /\ matched.ret = FALSE
    /\ matched.evaluated = <<<<1>>>>
    /\ ChildMatch(2).raised # ""

\* ------------------------------------------------------------------------
\* NonrelDatabaseOperations: the values and the fields of the conversions
\* ------------------------------------------------------------------------
\* A str that names something: a dict key, a column, a module, a class.
Name(s) == [type |-> "str", name |-> s]
\* django.utils.safestring.SafeString and a lazy translation string.
Safe(s) == [type |-> "SafeString", v |-> s]
Lazy(s) == [type |-> "Promise", v |-> s]
\* A (key, value) pair; a dict as its iteritems(), a set as its iteration:
\* the order is the object's own and no key or member comes twice.
Pair(key, value) == [key |-> key, value |-> value]
Dict(pairs) == [type |-> "dict", pairs |-> pairs]
Set(xs) == [type |-> "set", order |-> xs]
Generator(xs) == [type |-> "generator", yields |-> xs]

IMPORT_ERROR == "ImportError"

\* Fields, by what value_for_db and value_from_db read of them:
\* get_internal_type(), the db_type of the back-end's data_types, item_field
\* of a collection field, embedded_model and the class name of an
\* EmbeddedModelField, column and attname of a model's field.
RawField == [kind |-> "RawField", db_type |-> "raw"]
CollectionField(kind, db_type, item_field) ==
    [kind |-> kind, db_type |-> db_type, item_field |-> item_field]
EmbeddedModelField(class, db_type, embedded_model) ==
    [kind |-> "EmbeddedModelField", class |-> class, db_type |-> db_type,
     embedded_model |-> embedded_model]
ModelField(attname, column, subfield) ==
    [attname |-> attname, column |-> column, field |-> subfield]

get_internal_type(field) == field.kind
nonrel_db_type(field) == field.db_type

\* The models import_module can reach, each with _meta.fields.
MODELS_MODULE == Name("app.models")
NoModel == "None"
Models ==
    [EmbeddedModel |-> <<ModelField("someint", "custom", RawField)>>,
     SetModel |-> <<ModelField("id", "id", RawField),
                    ModelField("setfield", "setfield",
                               CollectionField("SetField", "set", RawField))>>]
ModelNames == DOMAIN Models

\* model(__entity_exists=True, **data)
Instance(model, data) == [type |-> "instance", model |-> model, data |-> data]
\* What EmbeddedModelField.get_db_prep_save hands to value_for_db.
\* field_values is the dict of subfields and their values, as its
\* iteritems().
Embedded(model, field_values, save_model_info) ==
    [type |-> "tuple", instance |-> Instance(model, <<>>),
     field_values |-> field_values, save_model_info |-> save_model_info]

\* embedded_instance.__class__.__module__ and .__name__
ClassModule(instance) == MODELS_MODULE
ClassName(instance) == Name(instance.model)

\* dict(pairs): a later pair replaces the value of an equal earlier key.
RECURSIVE Put(_, _)
Put(pairs, pair) ==
    IF pairs = <<>> THEN <<pair>>
    ELSE IF Head(pairs).key = pair.key THEN <<pair>> \o Tail(pairs)
    ELSE <<Head(pairs)>> \o Put(Tail(pairs), pair)

RECURSIVE PutAll(_, _)
PutAll(pairs, more) ==
    IF more = <<>> THEN pairs ELSE PutAll(Put(pairs, Head(more)), Tail(more))

dict(pairs) == Dict(PutAll(<<>>, pairs))

\* set(items): an item equal to an earlier one adds nothing.
RECURSIVE Distinct(_, _)
Distinct(seen, items) ==
    IF items = <<>> THEN seen
    ELSE Distinct(IF \E k \in 1..Len(seen) : seen[k] = Head(items)
                  THEN seen ELSE Append(seen, Head(items)),
                  Tail(items))

set(items) == Set(Distinct(<<>>, items))

\* list(item for pair in value for item in pair)
RECURSIVE Flatten(_)
Flatten(pairs) ==
    IF pairs = <<>> THEN <<>>
    ELSE <<Head(pairs).key, Head(pairs).value>> \o Flatten(Tail(pairs))

\* zip(value[::2], value[1::2])
RECURSIVE zip(_, _)
zip(evens, odds) ==
    IF evens = <<>> \/ odds = <<>> THEN <<>>
    ELSE <<Pair(Head(evens), Head(odds))>> \o zip(Tail(evens), Tail(odds))

Evens(xs) == [k \in 1..((Len(xs) + 1) \div 2) |-> xs[2 * k - 1]]
Odds(xs) == [k \in 1..(Len(xs) \div 2) |-> xs[2 * k]]

\* pairs.get(key, None) and what is left by pairs.pop(key, None)
RECURSIVE Get(_, _)
Get(pairs, key) ==
    IF pairs = <<>> THEN None
    ELSE IF Head(pairs).key = key THEN Head(pairs).value
    ELSE Get(Tail(pairs), key)

HasKey(pairs, key) == \E k \in 1..Len(pairs) : pairs[k].key = key

RECURSIVE Without(_, _)
Without(pairs, key) ==
    IF pairs = <<>> THEN <<>>
    ELSE IF Head(pairs).key = key THEN Without(Tail(pairs), key)
    ELSE <<Head(pairs)>> \o Without(Tail(pairs), key)

\* ------------------------------------------------------------------------
\* NonrelDatabaseOperations.value_for_db
\* ------------------------------------------------------------------------
\* Lines 227-235: lazy objects are evaluated, marked strings unmarked.
Evaluated(value) ==
    IF value.type \in {"Promise", "SafeString"} THEN Str(value.v) ELSE value

\* for subvalue in value: a list, a set, a dict (its keys), a str (its
\* characters); a number, a date or a model instance is not iterable.
Iterate(value) ==
    CASE value.type = "list" -> Return(value.items)
      [] value.type = "set" -> Return(value.order)
      [] value.type = "dict" ->
            Return([k \in 1..Len(value.pairs) |-> value.pairs[k].key])
      [] value.type = "str" /\ "v" \in DOMAIN value ->
            Return([k \in 1..Len(value.v) |-> Str(<<value.v[k]>>)])
      [] OTHER -> Raise(TYPE_ERROR)

\* value.iteritems()
IterItems(value) ==
    IF value.type = "dict" THEN Return(value.pairs)
    ELSE Raise(ATTRIBUTE_ERROR)

Values(pairs) == [k \in 1..Len(pairs) |-> pairs[k].value]
Rekeyed(pairs, values) ==
    [k \in 1..Len(pairs) |-> Pair(pairs[k].key, values[k])]

\* A slip: the "list" storage of a DictField keeps the values only.
FlatList_ValuesOnly(pairs) == List(Values(pairs))

\* Lines 334 and 456: keys and values interleaved in one list.
FlatList(pairs) == List(Flatten(pairs))

\* A slip: the lookup value is converted as a collection of items.
LookupCollection_Iterated(lookup) == FALSE

\* Line 316: a lookup value is converted as one item.
LookupCollection(lookup) == lookup

\* A slip: the model info is saved for every embedded instance.
SaveModelInfo_Always(save_model_info) == TRUE

\* Line 446.
SaveModelInfo(save_model_info) == save_model_info

RECURSIVE value_for_db(_, _, _, _, _), value_for_db_collection(_, _, _, _, _),
          value_for_db_model(_, _, _, _, _), ConvertedForDb(_, _, _),
          ConvertedFieldValues(_, _)
value_for_db(value, field, field_kind, db_type, lookup) ==
    IF value = None THEN Return(None)
    ELSE IF field_kind \in {"ListField", "SetField", "DictField"}
    THEN value_for_db_collection(Evaluated(value), field, field_kind,
                                 db_type, lookup)
    ELSE IF field_kind = "EmbeddedModelField"
    THEN value_for_db_model(Evaluated(value), field, field_kind, db_type,
                            lookup)
    ELSE Return(Evaluated(value))

\* The generators of lines 325-328 and 339-342, run to their end: every
\* subvalue converted with the item field, the first exception raised.
ConvertedForDb(subvalues, subfield, lookup) ==
    IF subvalues = <<>> THEN Return(<<>>)
    ELSE LET first == value_for_db(Head(subvalues), subfield,
                                   get_internal_type(subfield),
                                   nonrel_db_type(subfield), lookup)
         IN IF first.raised # "" THEN first
            ELSE LET rest == ConvertedForDb(Tail(subvalues), subfield, lookup)
                 IN IF rest.raised # "" THEN rest
                    ELSE Return(<<first.ret>> \o rest.ret)

value_for_db_collection(value, field, field_kind, db_type, lookup) ==
    LET subfield == field.item_field
    IN IF LookupCollection(lookup)
       THEN value_for_db(value, subfield, get_internal_type(subfield),
                         nonrel_db_type(subfield), lookup)
       ELSE IF field_kind = "DictField"
       THEN LET pairs == IterItems(value)
            IN IF pairs.raised # "" THEN pairs
               ELSE IF db_type \notin {"dict", "list"}
               THEN Return(Generator(pairs.ret))
               ELSE LET values == ConvertedForDb(Values(pairs.ret), subfield,
                                                 lookup)
                    IN IF values.raised # "" THEN values
                       ELSE IF db_type = "dict"
                       THEN Return(dict(Rekeyed(pairs.ret, values.ret)))
                       ELSE Return(FlatList(Rekeyed(pairs.ret, values.ret)))
       ELSE LET subvalues == Iterate(value)
            IN IF subvalues.raised # "" THEN subvalues
               ELSE IF db_type \notin {"list", "set"}
               THEN Return(Generator(subvalues.ret))
               ELSE LET items == ConvertedForDb(subvalues.ret, subfield,
                                                lookup)
                    IN IF items.raised # "" THEN items
                       ELSE IF db_type = "list" THEN Return(List(items.ret))
                       ELSE Return(set(items.ret))

\* The generator of lines 432-439, run to its end: (column, converted
\* value) for every subfield of field_values.
ConvertedFieldValues(field_values, lookup) ==
    IF field_values = <<>> THEN Return(<<>>)
    ELSE LET subfield == Head(field_values).key
             first == value_for_db(Head(field_values).value, subfield.field,
                                   get_internal_type(subfield.field),
                                   nonrel_db_type(subfield.field), lookup)
         IN IF first.raised # "" THEN first
            ELSE LET rest == ConvertedFieldValues(Tail(field_values), lookup)
                 IN IF rest.raised # "" THEN rest
                    ELSE Return(<<Pair(Name(subfield.column), first.ret)>>
                                \o rest.ret)

\* Line 443: (f.column, v) for the legacy field.
Unconverted(field_values) ==
    [k \in 1..Len(field_values) |->
        Pair(Name(field_values[k].key.column), field_values[k].value)]

MODULE_KEY == Name("_module")
MODEL_KEY == Name("_model")

value_for_db_model(value, field, field_kind, db_type, lookup) ==
    IF lookup THEN Return(value)
    ELSE IF value.type # "tuple" THEN Raise(TYPE_ERROR)
    ELSE LET legacy == field.class = "LegacyEmbeddedModelField"
             info == <<Pair(MODULE_KEY, ClassModule(value.instance)),
                       Pair(MODEL_KEY, ClassName(value.instance))>>
             known == db_type \in {"dict", "list"}
             pairs == IF legacy THEN Return(Unconverted(value.field_values))
                      ELSE ConvertedFieldValues(value.field_values, lookup)
         IN IF ~SaveModelInfo(value.save_model_info) /\ ~known
            THEN Return(Generator(value.field_values))
            ELSE IF pairs.raised # "" THEN pairs
            ELSE LET all == IF SaveModelInfo(value.save_model_info)
                            THEN pairs.ret \o info ELSE pairs.ret
                 IN IF db_type = "dict" THEN Return(dict(all))
                    ELSE IF db_type = "list" THEN Return(FlatList(all))
                    ELSE Return(List(all))

\* ------------------------------------------------------------------------
\* NonrelDatabaseOperations.value_from_db
\* ------------------------------------------------------------------------
\* Lines 372 and 477: value[::2] and value[1::2] slice a list only.
Interleaved(value) ==
    IF value.type = "list"
    THEN Return(zip(Evens(value.items), Odds(value.items)))
    ELSE Raise(TYPE_ERROR)

\* value.pop(key, None) of lines 483-493: a dict has it, a list and a set
\* take no default, anything else has no pop.
Poppable(value) ==
    IF value.type = "dict" THEN Return(value.pairs)
    ELSE IF value.type \in {"list", "set"} THEN Raise(TYPE_ERROR)
    ELSE Raise(ATTRIBUTE_ERROR)

\* Lines 482-487: the entries of the data of older versions.
Legacy(pairs) ==
    LET no_app == Without(pairs, Name("_app"))
        no_model == IF HasKey(no_app, MODULE_KEY) THEN no_app
                    ELSE Without(no_app, MODEL_KEY)
    IN IF HasKey(no_model, Name("_id"))
       THEN Put(Without(no_model, Name("_id")),
                Pair(Name("id"), Get(no_model, Name("_id"))))
       ELSE no_model

\* Lines 494-497: the class stored with the values, else the field's.
\* getattr(import_module(module), model)
TargetModel(module, model, field) ==
    IF module # None /\ model # None
    THEN IF module # MODELS_MODULE THEN Raise(IMPORT_ERROR)
         ELSE IF "name" \notin DOMAIN model THEN Raise(TYPE_ERROR)
         ELSE IF model.name \notin ModelNames THEN Raise(ATTRIBUTE_ERROR)
         ELSE Return(model.name)
    ELSE Return(field.embedded_model)

\* A slip: the items of every collection field are returned as a list.
OfFieldKind_AlwaysList(field_kind, items) == List(items)

\* Lines 391-394: the value has the type the field holds; the generator
\* itself is returned for another kind.
OfFieldKind(field_kind, items) ==
    IF field_kind = "ListField" THEN List(items)
    ELSE IF field_kind = "SetField" THEN set(items)
    ELSE Generator(items)

\* A slip: a column that is not stored is read as None.
ColumnStored_Always(pairs, column) == TRUE

\* Lines 512 and 515: value[subfield.column] without a KeyError.
ColumnStored(pairs, column) == HasKey(pairs, Name(column))

RECURSIVE value_from_db(_, _, _, _), value_from_db_collection(_, _, _, _),
          value_from_db_model(_, _, _, _), ConvertedFromDb(_, _),
          Deconverted(_, _), Undeconverted(_, _)
value_from_db(value, field, field_kind, db_type) ==
    IF value = None THEN Return(None)
    ELSE IF field_kind \in {"ListField", "SetField", "DictField"}
    THEN value_from_db_collection(value, field, field_kind, db_type)
    ELSE IF field_kind = "EmbeddedModelField"
    THEN value_from_db_model(value, field, field_kind, db_type)
    ELSE Return(value)

\* The generators of lines 377-380 and 384-387, run to their end.
ConvertedFromDb(subvalues, subfield) ==
    IF subvalues = <<>> THEN Return(<<>>)
    ELSE LET first == value_from_db(Head(subvalues), subfield,
                                    get_internal_type(subfield),
                                    nonrel_db_type(subfield))
         IN IF first.raised # "" THEN first
            ELSE LET rest == ConvertedFromDb(Tail(subvalues), subfield)
                 IN IF rest.raised # "" THEN rest
                    ELSE Return(<<first.ret>> \o rest.ret)

value_from_db_collection(value, field, field_kind, db_type) ==
    LET subfield == field.item_field
    IN IF field_kind = "DictField"
       THEN LET pairs == IF db_type = "list" THEN Interleaved(value)
                         ELSE IterItems(value)
            IN IF pairs.raised # "" THEN pairs
               ELSE LET values == ConvertedFromDb(Values(pairs.ret), subfield)
                    IN IF values.raised # "" THEN values
                       ELSE Return(dict(Rekeyed(pairs.ret, values.ret)))
       ELSE LET subvalues == Iterate(value)
            IN IF subvalues.raised # "" THEN subvalues
               ELSE LET items == ConvertedFromDb(subvalues.ret, subfield)
                    IN IF items.raised # "" THEN items
                       ELSE Return(OfFieldKind(field_kind, items.ret))

\* The loop of lines 509-516 over the subfields of the model: the data of
\* the constructor, or the exception that ends the loop.
Deconverted(pairs, subfields) ==
    IF subfields = <<>> THEN Return(<<>>)
    ELSE LET subfield == Head(subfields)
             rest == Deconverted(pairs, Tail(subfields))
         IN IF ~ColumnStored(pairs, subfield.column) THEN rest
            ELSE LET first == value_from_db(
                                  Get(pairs, Name(subfield.column)),
                                  subfield.field,
                                  get_internal_type(subfield.field),
                                  nonrel_db_type(subfield.field))
                 IN IF first.raised = KEY_ERROR THEN rest
                    ELSE IF first.raised # "" THEN first
                    ELSE IF rest.raised # "" THEN rest
                    ELSE Return(<<Pair(Name(subfield.attname), first.ret)>>
                                \o rest.ret)

\* Lines 501-503: the stored values of the model's fields, as they are.
Undeconverted(pairs, subfields) ==
    IF subfields = <<>> THEN <<>>
    ELSE LET subfield == Head(subfields)
             rest == Undeconverted(pairs, Tail(subfields))
         IN IF HasKey(pairs, Name(subfield.column))
            THEN <<Pair(Name(subfield.attname),
                        Get(pairs, Name(subfield.column)))>> \o rest
            ELSE rest

value_from_db_model(value, field, field_kind, db_type) ==
    LET legacy == field.class = "LegacyEmbeddedModelField"
        mapping == IF db_type = "list"
                   THEN LET pairs == Interleaved(value)
                        IN IF pairs.raised # "" THEN pairs
                           ELSE Return(dict(pairs.ret).pairs)
                   ELSE Poppable(value)
    IN IF mapping.raised # "" THEN mapping
       ELSE LET stored == IF legacy THEN Legacy(mapping.ret) ELSE mapping.ret
                model == TargetModel(Get(stored, MODULE_KEY),
                                     Get(stored, MODEL_KEY), field)
                data == Without(Without(stored, MODULE_KEY), MODEL_KEY)
            IN IF model.raised # "" THEN model
               ELSE IF model.ret = NoModel THEN Raise(ATTRIBUTE_ERROR)
               ELSE IF legacy
               THEN Return(Instance(model.ret,
                                    Undeconverted(data, Models[model.ret])))
               ELSE LET kwargs == Deconverted(data, Models[model.ret])
                    IN IF kwargs.raised # "" THEN kwargs
                       ELSE Return(Instance(model.ret, kwargs.ret))

\* ------------------------------------------------------------------------
\* The fields and the values converted
\* ------------------------------------------------------------------------
\* Field kinds with the storage types a back-end may declare for them.
Storage ==
    {<<"ListField", "list">>, <<"SetField", "set">>, <<"SetField", "list">>,
     <<"DictField", "dict">>, <<"DictField", "list">>}

RECURSIVE FieldsOfDepth(_)
FieldsOfDepth(d) ==
    IF d = 0 THEN {RawField}
    ELSE LET inner == FieldsOfDepth(d - 1)
         IN inner \cup {CollectionField(kind[1], kind[2], item_field) :
                           kind \in Storage, item_field \in inner}

EmbeddedFields ==
    {EmbeddedModelField(class, db_type, embedded_model) :
        class \in {"EmbeddedModelField", "LegacyEmbeddedModelField"},
        db_type \in {"dict", "list"},
        embedded_model \in ModelNames \cup {NoModel}}

Fields == FieldsOfDepth(MaxDepth) \cup EmbeddedFields

Atoms == {Int(1), Safe(<<CHAR_a>>)}
Keys == {Name("a"), Name("b")}

\* The sequences of up to n elements of S, none of them twice.
DistinctSeqs(S, n) ==
    {xs \in SeqsUpTo(S, n) :
        \A i, j \in 1..Len(xs) : xs[i] = xs[j] => i = j}

Hashable(x) == x.type \notin {"list", "set", "dict"}

Reverse(xs) == [k \in 1..Len(xs) |-> xs[Len(xs) + 1 - k]]

\* What a field hands to value_for_db for storage: None, or a value of its
\* kind with items of its item field.
RECURSIVE ValuesOf(_), FieldValuesOf(_)
ValuesOf(f) ==
    {None} \cup
    CASE f.kind = "ListField" ->
            {List(xs) : xs \in SeqsUpTo(ValuesOf(f.item_field), MaxItems)}
      [] f.kind = "SetField" ->
            {Set(xs) :
                xs \in DistinctSeqs({x \in ValuesOf(f.item_field) :
                                        Hashable(x)}, MaxItems)}
      [] f.kind = "DictField" ->
            UNION {{Dict(Rekeyed([k \in 1..Len(ks) |-> Pair(ks[k], None)],
                                 vs)) :
                        vs \in SeqsOfLen(ValuesOf(f.item_field), Len(ks))} :
                   ks \in DistinctSeqs(Keys, MaxItems)}
      [] f.kind = "EmbeddedModelField" ->
            UNION {{Embedded(model, order[1], save_model_info) :
                        save_model_info \in BOOLEAN,
                        order \in
                            UNION {{<<field_values>>,
                                    <<Reverse(field_values)>>} :
                                   field_values \in
                                       FieldValuesOf(Models[model])}} :
                   model \in ModelNames}
      [] OTHER -> Atoms

\* A value for each of a model's fields.
FieldValuesOf(subfields) ==
    IF subfields = <<>> THEN {<<>>}
    ELSE {<<Pair(Head(subfields), v)>> \o rest :
            v \in ValuesOf(Head(subfields).field),
            rest \in FieldValuesOf(Tail(subfields))}

\* Lookup values: a filter parameter may have any runtime shape.
LookupValues ==
    {None, Int(1), Lazy(<<CHAR_a>>), Safe(<<CHAR_a>>),
     List(<<Int(1), Safe(<<CHAR_a>>)>>), Set(<<Int(1)>>),
     Dict(<<Pair(Name("a"), Lazy(<<CHAR_a>>))>>),
     Embedded("EmbeddedModel", <<>>, TRUE)}

\* ------------------------------------------------------------------------
\* The conversions of one value: stored, looked up, loaded
\* ------------------------------------------------------------------------
Done(outcome, of) ==
    [raised |-> outcome.raised, ret |-> outcome.ret, ran |-> TRUE, of |-> of]

\* No query is compiled.
NoQuery ==
    /\ filters = Node(AND, FALSE, <<>>)
    /\ pc = "none"
    /\ _negated = FALSE
    /\ stack = <<>>
    /\ calls = <<>>
    /\ raised = ""
    /\ raisedAt = <<>>
    /\ visited = <<>>
    /\ entity = NoEntity
    /\ matched = NotRun

OpsInit ==
    /\ NoQuery
    /\ CompilerIdle
    /\ MoreIdle
    /\ column_field \in Fields
    /\ python_value \in ValuesOf(column_field)
    /\ db_value = None
    /\ damage = ""
    /\ loaded = NotDone
    /\ prepared = NotDone
    /\ phase = "new"

\* An insert or update: the value converted for storage and written.
Save ==
    /\ phase = "new"
    /\ LET converted == value_for_db(python_value, column_field,
                                     get_internal_type(column_field),
                                     nonrel_db_type(column_field), FALSE)
       IN IF converted.raised # ""
          THEN /\ phase' = "raised"
               /\ UNCHANGED db_value
          ELSE /\ phase' = "stored"
               /\ db_value' = converted.ret
    /\ UNCHANGED <<moreVars, compilerVars, queryVars, column_field, python_value, damage, loaded,
                   prepared>>

\* A filter: a parameter converted with the field of the column.
Lookup ==
    /\ phase = "new"
    /\ \E parameter \in LookupValues \cup {python_value} :
          prepared' = Done(value_for_db(parameter, column_field,
                                        get_internal_type(column_field),
                                        nonrel_db_type(column_field), TRUE),
                           parameter)
    /\ phase' = "prepared"
    /\ UNCHANGED <<moreVars, compilerVars, queryVars, column_field, python_value, db_value, damage,
                   loaded>>

\* The key and value entries of what is stored as a dict or as a flat list.
Entries(x) ==
    IF x.type = "dict" THEN x.pairs ELSE zip(Evens(x.items), Odds(x.items))

\* The stored data come back from the database with the last element of a
\* flat list missing.
Truncate ==
    /\ phase = "stored"
    /\ damage = ""
    /\ column_field.kind \in {"DictField", "EmbeddedModelField"}
    /\ column_field.db_type = "list"
    /\ db_value # None
    /\ db_value.items # <<>>
    /\ db_value' = List(SubSeq(db_value.items, 1, Len(db_value.items) - 1))
    /\ damage' = "truncated"
    /\ UNCHANGED <<moreVars, compilerVars, queryVars, column_field, python_value, loaded, prepared,
                   phase>>

\* The stored data were written without one of the entries: by a version of
\* the model that had no such field, or without one of the class entries.
DropEntry ==
    /\ phase = "stored"
    /\ damage = ""
    /\ column_field.kind = "EmbeddedModelField"
    /\ db_value # None
    /\ \E k \in 1..Len(Entries(db_value)) :
          LET rest == Without(Entries(db_value), Entries(db_value)[k].key)
          IN db_value' = IF db_value.type = "dict" THEN Dict(rest)
                         ELSE FlatList(rest)
    /\ damage' = "entry dropped"
    /\ UNCHANGED <<moreVars, compilerVars, queryVars, column_field, python_value, loaded, prepared,
                   phase>>

\* A fetch: the stored data converted back for the field.
Load ==
    /\ phase = "stored"
    /\ loaded' = Done(value_from_db(db_value, column_field,
                                    get_internal_type(column_field),
                                    nonrel_db_type(column_field)),
                      db_value)
    /\ phase' = "loaded"
    /\ UNCHANGED <<moreVars, compilerVars, queryVars, column_field, python_value, db_value, damage,
                   prepared>>

OpsNext ==
    \/ Save
    \/ Lookup
    \/ Truncate
    \/ DropEntry
    \/ Load

OpsSpec == OpsInit /\ [][OpsNext]_vars

\* ------------------------------------------------------------------------
\* NonrelCompiler: the query, its model and the fields loaded
\* ------------------------------------------------------------------------
INTEGRITY_ERROR == "IntegrityError"
NOT_SUPPORTED == "DatabaseError: This query is not supported by the database."
MULTI_TABLE == "DatabaseError: Multi-table inheritance is not supported"
SPANS_TABLES == "DatabaseError: Ordering can't span tables"
RANDOMIZED == "DatabaseError: Randomized ordering isn't supported"
FIELD_DOES_NOT_EXIST == "FieldDoesNotExist"

\* A field of a model, by what the compiler reads of it: name and column,
\* null, get_default(), the model it belongs to, and what the conversions
\* read.
DeclaredField(name, column, null, default, model, kind) ==
    [name |-> name, column |-> column, null |-> null, default |-> default,
     model |-> model, kind |-> kind.kind, db_type |-> kind.db_type,
     item_field |-> IF "item_field" \in DOMAIN kind THEN kind.item_field
                    ELSE None]

get_default(f) == f.default

IntegerField == [kind |-> "IntegerField", db_type |-> "integer"]

\* The fields of the model queried: a key, a list with a default, a list
\* that may be None, a set stored as a list whose default is an empty list.
integer ==
    DeclaredField("integer", "integer", FALSE, None, "ListModel",
                  IntegerField)
names_with_default ==
    DeclaredField("names_with_default", "names_with_default", FALSE,
                  List(<<>>), "ListModel",
                  CollectionField("ListField", "list", RawField))
names_nullable ==
    DeclaredField("names_nullable", "names_nullable", TRUE, None,
                  "ListModel", CollectionField("ListField", "list", RawField))
setfield ==
    DeclaredField("setfield", "custom", FALSE, List(<<>>), "ListModel",
                  CollectionField("SetField", "list", IntegerField))
\* A field of a parent model, in a table of its own.
parent_field ==
    DeclaredField("index", "index", FALSE, None, "Target", IntegerField)

\* query.model._meta of the model and of its proxy.
Meta ==
    [ListModel |->
        [db_table |-> db_table, pk |-> integer, ordering |-> <<>>,
         proxy |-> FALSE, proxy_for_model |-> "ListModel",
         fields |-> <<integer, names_with_default, names_nullable,
                      setfield>>],
     ListModelProxy |->
        [db_table |-> db_table, pk |-> integer,
         ordering |-> <<<<"-", "integer">>>>,
         proxy |-> TRUE, proxy_for_model |-> "ListModel",
         fields |-> <<integer, names_with_default, names_nullable,
                      setfield>>]]

\* Lines 340-342.
check_query(q) ==
    IF \/ Cardinality({a \in DOMAIN q.alias_refcount :
                          q.alias_refcount[a] # 0}) > 1
       \/ q.distinct
       \/ q.extra
       \/ q.having
    THEN Raise(NOT_SUPPORTED)
    ELSE Return(None)

\* Lines 377-403.  only_load is what deferred_to_columns() returns: the
\* columns to load of each table.
get_fields(q) ==
    LET opts == Meta[q.model]
        all == IF q.select_fields # <<>>
               THEN q.select_fields \o q.related_select_fields
               ELSE opts.fields
        only_load == {k \in DOMAIN q.only_load :
                         q.only_load[k] # {} \/ k = opts.db_table}
        Loaded(f) == /\ opts.db_table \in only_load
                     /\ f.column \in q.only_load[opts.db_table]
        fs == IF DOMAIN q.only_load # {} THEN SelectSeq(all, Loaded) ELSE all
        query_model == IF opts.proxy THEN opts.proxy_for_model ELSE q.model
    IN IF DOMAIN q.only_load # {} /\ Cardinality(only_load) > 1
       THEN Raise(MULTI_TABLE)
       ELSE IF \E k \in 1..Len(fs) : fs[k].model # query_model
       THEN Raise(MULTI_TABLE)
       ELSE Return(fs)

\* An order_by entry is a string, kept as its pieces: "+", "-", "?", "__"
\* (LOOKUP_SEP) and names.
RECURSIVE lstrip(_, _)
lstrip(order, char) ==
    IF order # <<>> /\ Head(order) = char THEN lstrip(Tail(order), char)
    ELSE order

\* A slip: the descending flag is not reversed for a reversed query.
Descending_NeverReversed(descending, standard_ordering) == descending

\* Lines 421-422.
Descending(descending, standard_ordering) ==
    IF ~standard_ordering THEN ~descending ELSE descending

\* Lines 411-423, for one entry.
OrderingEntry(q, order) ==
    LET opts == Meta[q.model]
        plain == lstrip(order, "+")
        descending == plain # <<>> /\ Head(plain) = "-"
        stripped == lstrip(plain, "-")
        name == IF stripped = <<"pk">> THEN <<opts.pk.name>> ELSE stripped
    IN IF \E k \in 1..Len(order) : order[k] = "__" THEN Raise(SPANS_TABLES)
       ELSE IF order = <<"?">> THEN Raise(RANDOMIZED)
       ELSE IF \E k \in 1..Len(opts.fields) : <<opts.fields[k].name>> = name
       THEN LET k == CHOOSE k \in 1..Len(opts.fields) :
                         <<opts.fields[k].name>> = name
            IN Return([column |-> opts.fields[k].column,
                       descending |-> Descending(descending,
                                                 q.standard_ordering)])
       ELSE Raise(FIELD_DOES_NOT_EXIST)

\* Lines 405-423: the generator run to its end, as the driver's order_by
\* runs it.
RECURSIVE OrderingOf(_, _)
OrderingOf(q, ordering) ==
    IF ordering = <<>> THEN Return(<<>>)
    ELSE LET first == OrderingEntry(q, Head(ordering))
         IN IF first.raised # "" THEN first
            ELSE LET rest == OrderingOf(q, Tail(ordering))
                 IN IF rest.raised # "" THEN rest
                    ELSE Return(<<first.ret>> \o rest.ret)

_get_ordering(q) ==
    OrderingOf(q, IF ~q.default_ordering THEN q.order_by
                  ELSE IF q.order_by # <<>> THEN q.order_by
                  ELSE Meta[q.model].ordering)

\* What the back-end's DatabaseOperations does with a stored value: the
\* conversion of the value for its field and storage type.
decode(storageValue, fieldDescriptor, storageType) ==
    value_from_db(storageValue, fieldDescriptor,
                  get_internal_type(fieldDescriptor), storageType)

\* Lines 460-473.
convert_value_from_db(x, f) == decode(x, f, nonrel_db_type(f))

\* base.py, lines 164-170: no conversion.
convert_values(x, f) == x

\* A slip: a missing column is read as None instead of the default.
Provided_OrNone(record, f) == Return(None)

\* Line 327, after line 326 has returned or raised.
Converted(converted, f) ==
    IF converted.raised # "" THEN converted
    ELSE Return(convert_values(converted.ret, f))

\* Lines 322-327: the value of the field's column, or the default.
Provided(record, f) ==
    IF f.column \notin DOMAIN record THEN Return(get_default(f))
    ELSE Converted(convert_value_from_db(record[f.column], f), f)

\* Lines 328-330.
NotNone(provided, f) ==
    IF provided.raised # "" THEN provided
    ELSE IF provided.ret = None /\ ~f.null THEN Raise(INTEGRITY_ERROR)
    ELSE provided

\* Line 331, and the loop going on: the first exception raised ends it.
Appended(first, rest) ==
    IF first.raised # "" THEN first
    ELSE IF rest.raised # "" THEN rest
    ELSE Return(<<first.ret>> \o rest.ret)

\* Lines 312-332.
RECURSIVE _make_result(_, _)
_make_result(record, fs) ==
    IF fs = <<>> THEN Return(<<>>)
    ELSE Appended(NotNone(Provided(record, Head(fs)), Head(fs)),
                  _make_result(record, Tail(fs)))

\* ------------------------------------------------------------------------
\* The queries compiled and the entities fetched
\* ------------------------------------------------------------------------
\* The most entities one fetch returns.
MaxRows == 2

Plain ==
    [model |-> "ListModel", low_mark |-> Int(0), high_mark |-> None,
     order_by |-> <<>>, default_ordering |-> TRUE,
     standard_ordering |-> TRUE, distinct |-> FALSE, extra |-> FALSE,
     having |-> FALSE, alias_refcount |-> (db_table :> 1),
     select_fields |-> <<>>, related_select_fields |-> <<>>,
     only_load |-> <<>>]

Sliced ==
    {[Plain EXCEPT !.low_mark = low, !.high_mark = high] :
        low \in {Int(0), Int(2)}, high \in {None, Int(1), Int(3)}}

Unsupported ==
    {[Plain EXCEPT !.distinct = TRUE], [Plain EXCEPT !.extra = TRUE],
     [Plain EXCEPT !.having = TRUE, !.high_mark = Int(3)],
     [Plain EXCEPT !.alias_refcount = (db_table :> 1) @@ ("other" :> 1)]}

Ordered ==
    {[Plain EXCEPT !.order_by = <<<<"-", "integer">>>>],
     [Plain EXCEPT !.order_by = <<<<"+", "pk">>, <<"setfield">>>>,
                   !.standard_ordering = FALSE],
     [Plain EXCEPT !.order_by = <<<<"-", "pk">>, <<"setfield">>>>,
                   !.standard_ordering = FALSE],
     [Plain EXCEPT !.order_by = <<<<"?">>>>, !.high_mark = Int(3)],
     [Plain EXCEPT !.order_by = <<<<"names", "__", "x">>>>],
     [Plain EXCEPT !.model = "ListModelProxy"],
     [Plain EXCEPT !.model = "ListModelProxy", !.default_ordering = FALSE,
                   !.alias_refcount = (db_table :> 1) @@ ("other" :> 0)]}

Partial ==
    {[Plain EXCEPT !.select_fields = <<names_with_default, setfield>>],
     [Plain EXCEPT !.select_fields = <<names_nullable>>,
                   !.related_select_fields = <<parent_field>>],
     [Plain EXCEPT !.only_load = (db_table :> {"integer", "custom"})],
     [Plain EXCEPT !.only_load = (db_table :> {"integer"})
                                 @@ ("other" :> {"index"})],
     [Plain EXCEPT !.only_load = (db_table :> {"integer"})
                                 @@ ("other" :> {})]}

Queries == Sliced \cup Unsupported \cup Ordered \cup Partial

\* query.where of the queries: no filter, one, a nested one, a negated
\* disjunction, and two that add_filters rejects.
Wheres ==
    {Node(AND, FALSE, <<>>),
     Node(AND, FALSE, <<LeafExact>>),
     Node(AND, FALSE, <<Node(OR, FALSE, <<LeafLt>>), LeafExact>>),
     Node(OR, TRUE, <<LeafExact, LeafLt>>),
     Node(AND, TRUE, <<LeafExact, LeafLt>>),
     Node(AND, FALSE, <<LeafJoin>>)}

\* Entities as the back-end returns them: columns and stored values, some
\* columns missing, some None.
Stored ==
    {("integer" :> Int(1)) @@ ("names_with_default" :> List(<<Int(1)>>))
        @@ ("names_nullable" :> None) @@ ("custom" :> List(<<Int(1), Int(1)>>)),
     ("integer" :> Int(1)) @@ ("names_nullable" :> List(<<>>)),
     ("integer" :> Int(1)) @@ ("custom" :> None),
     ("integer" :> Int(1)) @@ ("names_with_default" :> None),
     ("integer" :> Int(1)) @@ ("custom" :> Int(0)),
     ("integer" :> None) @@ ("custom" :> List(<<Int(0)>>)),
     ("custom" :> List(<<Int(0), Int(1)>>)) @@ ("names_nullable" :> None)}

\* ------------------------------------------------------------------------
\* NonrelCompiler: get_count, has_results, results_iter
\* ------------------------------------------------------------------------
CompilerInit ==
    /\ filters \in Wheres
    /\ pc = "none"
    /\ _negated = FALSE
    /\ stack = <<>>
    /\ calls = <<>>
    /\ raised = ""
    /\ raisedAt = <<>>
    /\ visited = <<>>
    /\ entity = NoEntity
    /\ matched = NotRun
    /\ OpsIdle
    /\ MoreIdle
    /\ query \in Queries
    /\ DEBUG \in BOOLEAN
    /\ running = "idle"
    /\ step = ""
    /\ check_exists = FALSE
    /\ high_mark = None
    /\ selected = <<>>
    /\ built = 0
    /\ driver = <<>>
    /\ queries = <<>>
    /\ fetched = <<>>
    /\ results = <<>>
    /\ failure = ""

\* The call ends with an exception.
Fail(kind) ==
    /\ step' = "raised"
    /\ failure' = kind

\* A slip: the compiler keeps its first NonrelQuery and uses it again.
query_class_Kept(made) == IF made = 0 THEN 1 ELSE made

\* Line 359: a new NonrelQuery, the objects numbered as they are made.
query_class(made) == made + 1

\* Lines 358-360: build_query up to the new NonrelQuery, add_filters next.
\* `fs` is the fields argument, or what get_fields() does when it is None.
BuildQuery(fs) ==
    IF fs.raised # ""
    THEN /\ Fail(fs.raised)
         /\ UNCHANGED <<selected, pc, built, driver>>
    ELSE /\ selected' = fs.ret
         /\ built' = query_class(built)
         /\ driver' = Append(driver, [op |-> "__init__",
                                      on |-> query_class(built),
                                      fields |-> fs.ret])
         /\ pc' = "idle"
         /\ step' = "add_filters"
         /\ UNCHANGED failure

\* A slip: the limit of an existence check is the query's high_mark.
Limit_HighMark(only_exists) == query.high_mark

\* Lines 350-353.
Limit(only_exists) == IF only_exists THEN Int(1) ELSE query.high_mark

\* Lines 344-354, up to build_query.
get_count(only_exists) ==
    /\ check_exists' = only_exists
    /\ high_mark' = Limit(only_exists)
    /\ BuildQuery(get_fields(query))
    /\ UNCHANGED <<query, DEBUG, queries, fetched, results>>
    /\ UNCHANGED <<filters, _negated, stack, calls, raised, raisedAt, visited,
                   entity, matched, opsVars, insertVars>>

GetCount ==
    /\ running = "idle"
    /\ running' = "get_count"
    /\ \E only_exists \in BOOLEAN : get_count(only_exists)
    /\ UNCHANGED <<aggregateVars, creationVars, permVars>>

\* Lines 286-287.
HasResults ==
    /\ running = "idle"
    /\ running' = "has_results"
    /\ get_count(TRUE)
    /\ UNCHANGED <<aggregateVars, creationVars, permVars>>

\* Lines 279-283, up to build_query.
ResultsIter ==
    /\ running = "idle"
    /\ running' = "results_iter"
    /\ LET supported == check_query(query)
           fs == get_fields(query)
       IN IF supported.raised # ""
          THEN /\ Fail(supported.raised)
               /\ UNCHANGED <<selected, pc, built, driver>>
          ELSE BuildQuery(fs)
    /\ UNCHANGED <<query, DEBUG, check_exists, high_mark, queries, fetched,
                   results>>
    /\ UNCHANGED <<filters, _negated, stack, calls, raised, raisedAt, visited,
                   entity, matched, opsVars, moreVars>>

\* Line 361: add_filters raised, and so does the call.
Rejected ==
    /\ step = "add_filters"
    /\ pc = "raised"
    /\ Fail(raised)
    /\ UNCHANGED <<query, DEBUG, running, check_exists, high_mark, selected, built, driver,
                   queries, fetched, results>>
    /\ UNCHANGED <<queryVars, opsVars, moreVars>>

\* Lines 362-367: add_filters has returned; the ordering is handed over
\* and the query is built.
OrderBy ==
    /\ step = "add_filters"
    /\ pc = "done"
    /\ LET ordering == _get_ordering(query)
       IN IF ordering.raised # ""
          THEN /\ Fail(ordering.raised)
               /\ UNCHANGED <<driver, queries>>
          ELSE /\ driver' = Append(driver, [op |-> "order_by", on |-> built,
                                            ordering |-> ordering.ret])
               /\ queries' = IF DEBUG THEN Append(queries, calls)
                             ELSE queries
               /\ step' = IF running = "results_iter" THEN "fetch"
                          ELSE IF running = "delete" THEN "delete"
                          ELSE "count"
               /\ UNCHANGED failure
    /\ UNCHANGED <<query, DEBUG, running, check_exists, high_mark, selected, built, fetched,
                   results>>
    /\ UNCHANGED <<queryVars, opsVars, moreVars>>

\* Line 354: the driver counts and the count is returned.
Count ==
    /\ step = "count"
    /\ driver' = Append(driver, [op |-> "count", on |-> built,
                                 limit |-> high_mark])
    /\ \E n \in 0..1 : results' = <<Int(n)>>
    /\ step' = IF running = "execute_sql" THEN "counted" ELSE "returned"
    /\ UNCHANGED <<query, DEBUG, running, check_exists, high_mark, selected, built, queries,
                   fetched, failure>>
    /\ UNCHANGED <<queryVars, opsVars, moreVars>>

\* Line 283: the driver fetches the window of the query.
Fetch ==
    /\ step = "fetch"
    /\ driver' = Append(driver, [op |-> "fetch", on |-> built,
                                 low_mark |-> query.low_mark,
                                 high_mark |-> query.high_mark])
    /\ \E entities \in SeqsUpTo(Stored, MaxRows) :
          /\ fetched' = entities
          /\ step' = IF entities = <<>> THEN "returned" ELSE "rows"
    /\ UNCHANGED <<query, DEBUG, running, check_exists, high_mark, selected, built, queries,
                   results, failure>>
    /\ UNCHANGED <<queryVars, opsVars, moreVars>>

\* Lines 283-284: the next entity is decoded and yielded.
MakeResult ==
    /\ step = "rows"
    /\ \E row \in {_make_result(Head(fetched), selected)} :
          IF row.raised # ""
          THEN /\ Fail(row.raised)
               /\ UNCHANGED <<fetched, results>>
          ELSE /\ results' = Append(results, row.ret)
               /\ fetched' = Tail(fetched)
               /\ step' = IF Tail(fetched) = <<>> THEN "returned" ELSE "rows"
               /\ UNCHANGED failure
    /\ UNCHANGED <<query, DEBUG, running, check_exists, high_mark, selected, built, driver,
                   queries>>
    /\ UNCHANGED <<queryVars, opsVars, moreVars>>

\* django.db.models.sql.constants.
SINGLE == "single"
MULTI == "multi"
CURSOR == "cursor"

ASSERTION_ERROR == "AssertionError"
NOT_IMPLEMENTED == "NotImplementedError"

\* An aggregate of django.db.models.sql.aggregates on a column.
Aggregate(class, col) == [class |-> class, col |-> col]

Aggregates ==
    {Aggregate("Count", "*"), Aggregate("Count", <<db_table, "integer">>),
     Aggregate("Count", <<db_table, "names_nullable">>),
     Aggregate("Sum", <<db_table, "integer">>), Aggregate("Max", "*")}

\* The aggregates a query may hold: none, one, two.
AggregateSelects ==
    {<<>>} \cup {<<a>> : a \in Aggregates}
    \cup {<<Aggregate("Count", "*"), Aggregate("Count", "*")>>,
          <<Aggregate("Count", "*"), Aggregate("Sum", "*")>>,
          <<Aggregate("Max", "*"), Aggregate("Count", "*")>>}

\* A slip: every aggregate passes for a Count.
IsCount_Any(a) == TRUE

\* isinstance(aggregate, Count).
IsCount(a) == a.class = "Count"

\* base.py, lines 172-179.
check_aggregate_support(a) ==
    IF ~IsCount(a) THEN Raise(NOT_IMPLEMENTED) ELSE Return(None)

\* A query gets an aggregate: the back-end is asked whether it supports it.
CheckAggregateSupport ==
    /\ running = "idle"
    /\ running' = "check_aggregate_support"
    /\ \E a \in Aggregates :
          /\ aggregate' = a
          /\ IF check_aggregate_support(a).raised # ""
             THEN Fail(check_aggregate_support(a).raised)
             ELSE step' = "returned" /\ UNCHANGED failure
    /\ UNCHANGED <<query, DEBUG, check_exists, high_mark, selected, built,
                   driver, queries, fetched, results, aggregate_select,
                   result_type>>
    /\ UNCHANGED <<queryVars, opsVars, notAggregateVars>>

\* Line 294: execute_sql is called on a query with its aggregates.
ExecuteSql ==
    /\ running = "idle"
    /\ running' = "execute_sql"
    /\ step' = "aggregates"
    /\ aggregate_select' \in AggregateSelects
    /\ result_type' \in {SINGLE, MULTI, CURSOR}
    /\ UNCHANGED <<query, DEBUG, check_exists, high_mark, selected, built,
                   driver, queries, fetched, results, failure, aggregate>>
    /\ UNCHANGED <<queryVars, opsVars, notAggregateVars>>

\* Lines 295-301: what the assertions let through.
Asserted(aggregates, opts) ==
    IF aggregates = <<>> THEN Raise(NOT_IMPLEMENTED)
    ELSE IF Len(aggregates) # 1 THEN Raise(ASSERTION_ERROR)
    ELSE IF ~IsCount(aggregates[1]) THEN Raise(ASSERTION_ERROR)
    ELSE IF /\ aggregates[1].col # "*"
            /\ aggregates[1].col # <<opts.db_table, opts.pk.column>>
    THEN Raise(ASSERTION_ERROR)
    ELSE Return(aggregates[1])

\* Lines 294-302: the aggregates are looked at and get_count is called.
CountAggregate ==
    /\ step = "aggregates"
    /\ IF Asserted(aggregate_select, Meta[query.model]).raised # ""
       THEN /\ Fail(Asserted(aggregate_select, Meta[query.model]).raised)
            /\ UNCHANGED <<check_exists, high_mark, selected, pc, built,
                           driver, query, DEBUG, queries, fetched, results>>
            /\ UNCHANGED <<filters, _negated, stack, calls, raised, raisedAt,
                           visited, entity, matched, opsVars, insertVars>>
       ELSE get_count(FALSE)
    /\ UNCHANGED <<running, aggregateVars, creationVars,
                   permVars>>

\* Lines 303-308: the count is returned in the shape asked for.
ReturnCount ==
    /\ step = "counted"
    /\ IF result_type = SINGLE
       THEN /\ results' = <<List(results)>>
            /\ step' = "returned"
            /\ UNCHANGED failure
       ELSE IF result_type = MULTI
       THEN /\ results' = <<List(<<List(results)>>)>>
            /\ step' = "returned"
            /\ UNCHANGED failure
       ELSE /\ Fail(NOT_IMPLEMENTED)
            /\ UNCHANGED results
    /\ UNCHANGED <<query, DEBUG, running, check_exists, high_mark, selected,
                   built, driver, queries, fetched>>
    /\ UNCHANGED <<queryVars, opsVars, moreVars>>

\* NonrelDeleteCompiler.execute_sql, lines 516-517, up to build_query.
ExecuteDelete ==
    /\ running = "idle"
    /\ running' = "delete"
    /\ BuildQuery(Return(<<Meta[query.model].pk>>))
    /\ UNCHANGED <<query, DEBUG, check_exists, high_mark, queries, fetched,
                   results>>
    /\ UNCHANGED <<filters, _negated, stack, calls, raised, raisedAt, visited,
                   entity, matched, opsVars, moreVars>>

\* Line 517: the back-end deletes what the query selects.
Delete ==
    /\ step = "delete"
    /\ driver' = Append(driver, [op |-> "delete", on |-> built])
    /\ step' = "returned"
    /\ UNCHANGED <<query, DEBUG, running, check_exists, high_mark, selected,
                   built, queries, fetched, results, failure>>
    /\ UNCHANGED <<queryVars, opsVars, moreVars>>

\* The most NonrelQuery objects one compiler makes.
MaxQueries == 2

\* The call is over, by a return, an exception or the end of the iteration;
\* its NonrelQuery is dropped and the compiler may be called again.
Again ==
    /\ step \in {"returned", "raised"}
    /\ built < MaxQueries
    /\ running' = "idle"
    /\ step' = ""
    /\ check_exists' = FALSE
    /\ high_mark' = None
    /\ selected' = <<>>
    /\ fetched' = <<>>
    /\ results' = <<>>
    /\ failure' = ""
    /\ pc' = "none"
    /\ _negated' = FALSE
    /\ stack' = <<>>
    /\ calls' = <<>>
    /\ raised' = ""
    /\ raisedAt' = <<>>
    /\ visited' = <<>>
    /\ aggregate_select' = <<>>
    /\ result_type' = ""
    /\ aggregate' = None
    /\ UNCHANGED <<query, DEBUG, built, driver, queries, filters, entity,
                   matched, opsVars, notAggregateVars>>

CompilerNext ==
    \/ GetCount
    \/ HasResults
    \/ ResultsIter
    \/ ExecuteDelete
    \/ Delete
    \/ CheckAggregateSupport
    \/ ExecuteSql
    \/ CountAggregate
    \/ ReturnCount
    \/ Again
    \/ Call
    \/ Descend
    \/ Dispatch
    \/ Leave
    \/ Rejected
    \/ OrderBy
    \/ Count
    \/ Fetch
    \/ MakeResult

CompilerSpec == CompilerInit /\ [][CompilerNext]_vars

\* ------------------------------------------------------------------------
\* C11.  For every node of the tree, childless nodes included, and the
\* record matched: _matches_filters on the node with negated = TRUE returns
\* the inverse of what it returns on the node with negated = FALSE.
\* ------------------------------------------------------------------------
\* The nodes of a tree, the tree included.
RECURSIVE Subnodes(_)
Subnodes(tree) ==
    IF tree.kind = "tuple" THEN {}
    ELSE {tree} \cup UNION {Subnodes(tree.children[k]) :
                                k \in 1..Len(tree.children)}

WithNegated(node, negated) == [node EXCEPT !.negated = negated]

\* Both calls return, and return opposite booleans.
Inverse(node, record) ==
    LET negative == _matches_filters(record, WithNegated(node, TRUE))
        positive == _matches_filters(record, WithNegated(node, FALSE))
    IN /\ negative.raised = positive.raised
       /\ negative.raised = "" => negative.ret = ~positive.ret

C11_NegatedInvertsEveryNode ==
    matched.ran => \A node \in Subnodes(filters) : Inverse(node, entity)

\* C11, as the code has it: on a node with at least one child the two calls
\* evaluate the same leaves, raise the same exception or return opposite
\* booleans; on a node with no children both return True.
C11_NegatedInvertsUnlessChildless ==
    matched.ran =>
        \A node \in Subnodes(filters) :
            LET negative == _matches_filters(entity, WithNegated(node, TRUE))
                positive == _matches_filters(entity, WithNegated(node, FALSE))
            IN IF node.children = <<>>
               THEN /\ negative.raised = "" /\ negative.ret
                    /\ positive.raised = "" /\ positive.ret
               ELSE /\ Inverse(node, entity)
                    /\ negative.evaluated = positive.evaluated

\* A negated node with a child matched a record its child does not match.
C11_Witness ==
    /\ matched.ran
    /\ matched.raised = ""
    /\ matched.ret
    /\ filters.negated
    /\ filters.children # <<>>
    /\ matched.evaluated # <<>>
    /\ ~_matches_filters(entity, WithNegated(filters, FALSE)).ret

\* ------------------------------------------------------------------------
\* C12.  A leaf matched against a record whose column holds None: with a
\* date as the lookup value it matches exactly when the lookup type is lt
\* or lte; otherwise the text lookups (startswith, contains, endswith,
\* iexact and the case-insensitive forms) do not match and do not raise;
\* every other case is what EMULATED_OPS gives for None and the value.
\* ------------------------------------------------------------------------
TextLookups ==
    {"startswith", "contains", "endswith", "iexact",
     "istartswith", "icontains", "iendswith"}

\* The tree is one leaf under a root, the leaf is of the query's table, its
\* value unwraps, and the record matched holds None in its column.
NoneColumnLeaf ==
    /\ matched.ran
    /\ Len(filters.children) = 1
    /\ IsTuple(filters.children[1])
    /\ filters.children[1].alias = db_table
    /\ MatchValue(filters.children[1].lookup_type, filters.children[1].value,
                  filters.children[1].annotation).raised = ""
    /\ entity[filters.children[1].column] = None

\* What the leaf gave: the root's negated bit undone.
LeafMatched == IF filters.negated THEN ~matched.ret ELSE matched.ret

C12_NoneColumnCases ==
    NoneColumnLeaf =>
        LET leaf == filters.children[1]
            value == MatchValue(leaf.lookup_type, leaf.value,
                                leaf.annotation).ret
        IN IF value.type = "date"
           THEN /\ matched.raised = ""
                /\ LeafMatched = (leaf.lookup_type \in {"lt", "lte"})
           ELSE IF leaf.lookup_type \in TextLookups
           THEN /\ matched.raised = ""
                /\ ~LeafMatched
           ELSE LET generic == EMULATED_OPS(leaf.lookup_type, None, value)
                IN /\ matched.raised = generic.raised
                   /\ generic.raised = "" => LeafMatched = generic.ret

\* A gt leaf with a date value did not match a record holding None.
C12_Witness ==
    /\ NoneColumnLeaf
    /\ filters.children[1].lookup_type = "gt"
    /\ filters.children[1].value = List(<<Date(1)>>)
    /\ ~filters.negated
    /\ matched.raised = ""
    /\ ~matched.ret

\* ------------------------------------------------------------------------
\* Vocabulary of the properties of the conversions
\* ------------------------------------------------------------------------
\* Python's ==: marked strings equal the plain string, sets and dicts are
\* equal whatever their iteration order.
RECURSIVE Equal(_, _)
Equal(x, y) ==
    IF x = None \/ y = None THEN x = y
    ELSE IF "v" \in DOMAIN x /\ "v" \in DOMAIN y
            /\ {x.type, y.type} \subseteq {"str", "SafeString", "Promise"}
    THEN x.v = y.v
    ELSE IF x.type # y.type THEN FALSE
    ELSE CASE x.type = "list" ->
                /\ Len(x.items) = Len(y.items)
                /\ \A k \in 1..Len(x.items) : Equal(x.items[k], y.items[k])
           [] x.type = "set" ->
                /\ \A i \in 1..Len(x.order) :
                      \E j \in 1..Len(y.order) : Equal(x.order[i], y.order[j])
                /\ \A j \in 1..Len(y.order) :
                      \E i \in 1..Len(x.order) : Equal(x.order[i], y.order[j])
           [] x.type = "dict" ->
                /\ \A i \in 1..Len(x.pairs) :
                      \E j \in 1..Len(y.pairs) :
                          /\ x.pairs[i].key = y.pairs[j].key
                          /\ Equal(x.pairs[i].value, y.pairs[j].value)
                /\ \A j \in 1..Len(y.pairs) :
                      \E i \in 1..Len(x.pairs) :
                          x.pairs[i].key = y.pairs[j].key
           [] OTHER -> x = y

\* The value has the Python type of the field's kind, at every level.
RECURSIVE Shaped(_, _)
Shaped(x, f) ==
    \/ x = None
    \/ CASE f.kind = "ListField" ->
                /\ x.type = "list"
                /\ \A k \in 1..Len(x.items) : Shaped(x.items[k], f.item_field)
         [] f.kind = "SetField" ->
                /\ x.type = "set"
                /\ \A k \in 1..Len(x.order) : Shaped(x.order[k], f.item_field)
         [] f.kind = "DictField" ->
                /\ x.type = "dict"
                /\ \A k \in 1..Len(x.pairs) :
                      Shaped(x.pairs[k].value, f.item_field)
         [] OTHER -> TRUE

IsCollectionField(f) == f.kind \in {"ListField", "SetField", "DictField"}

\* The stored data are as value_for_db wrote them.
Intact == phase \in {"stored", "loaded"} /\ damage = ""

\* ------------------------------------------------------------------------
\* C13.  A DictField stored as "list": value_for_db (not a lookup) of a dict
\* of n entries is a list of 2n elements, every key followed at once by the
\* converted value of that key, and value_from_db of the list returns a dict
\* equal to the original.
\* ------------------------------------------------------------------------
FlatDictField ==
    /\ column_field.kind = "DictField"
    /\ column_field.db_type = "list"
    /\ python_value # None

C13_FlatDictRoundTrip ==
    (Intact /\ FlatDictField) =>
        LET pairs == python_value.pairs
            n == Len(pairs)
            subfield == column_field.item_field
            Encoded(v) == value_for_db(v, subfield,
                                       get_internal_type(subfield),
                                       nonrel_db_type(subfield), FALSE).ret
            flat == IF phase = "loaded" THEN loaded.of ELSE db_value
        IN /\ flat = db_value
           /\ flat.type = "list"
           /\ Len(flat.items) = 2 * n
           /\ \A k \in 1..n :
                 /\ \E i \in 1..n : pairs[i].key = flat.items[2 * k - 1]
                 /\ \A i \in 1..n :
                       pairs[i].key = flat.items[2 * k - 1]
                       => flat.items[2 * k] = Encoded(pairs[i].value)
           /\ \A i \in 1..n : \E k \in 1..n : pairs[i].key = flat.items[2 * k - 1]
           /\ phase = "loaded" =>
                 /\ loaded.raised = ""
                 /\ loaded.ret.type = "dict"
                 /\ Equal(loaded.ret, python_value)

\* A dict of two entries with different values came back from a list of four.
C13_Witness ==
    /\ Intact
    /\ FlatDictField
    /\ phase = "loaded"
    /\ Len(python_value.pairs) = 2
    /\ python_value.pairs[1].value # python_value.pairs[2].value
    /\ Len(db_value.items) = 4
    /\ Equal(loaded.ret, python_value)

\* ------------------------------------------------------------------------
\* C14.  For a ListField, SetField or DictField value nested to any depth,
\* None items included, each level stored under a storage type declared for
\* its kind: value_from_db(value_for_db(v, lookup = False)) equals v and has
\* the Python type of the field kind (list, set, dict) at every level.
\* ------------------------------------------------------------------------
C14_CollectionsRoundTrip ==
    (Intact /\ phase = "loaded" /\ IsCollectionField(column_field)) =>
        /\ loaded.raised = ""
        /\ Equal(loaded.ret, python_value)
        /\ Shaped(loaded.ret, column_field)

\* A dict of sets stored as a list of lists came back as a dict of sets, one
\* of them holding None.
C14_Witness ==
    /\ Intact
    /\ phase = "loaded"
    /\ column_field = CollectionField("DictField", "list",
                          CollectionField("SetField", "list", RawField))
    /\ python_value # None
    /\ Len(python_value.pairs) = 2
    /\ python_value.pairs[1].value = Set(<<None, Int(1)>>)
    /\ db_value.items[2] = List(<<None, Int(1)>>)
    /\ loaded.ret.pairs[1].value.type = "set"
    /\ Equal(loaded.ret, python_value)

\* ------------------------------------------------------------------------
\* C15.  Decoding a flat key/value list of odd length, for a DictField or
\* an embedded model stored as "list", ends in an exception: it returns no
\* value in which the last element, which has no partner, was dropped.
\* ------------------------------------------------------------------------
OddFlatList ==
    /\ phase = "loaded"
    /\ column_field.kind \in {"DictField", "EmbeddedModelField"}
    /\ column_field.db_type = "list"
    /\ loaded.of # None
    /\ loaded.of.type = "list"
    /\ Len(loaded.of.items) % 2 = 1

C15_OddLengthRaises == OddFlatList => loaded.raised # ""

\* ------------------------------------------------------------------------
\* C16.  value_for_db with lookup = True on a ListField, SetField or
\* DictField returns what value_for_db returns for the same value and the
\* field's item_field, lookup still True, and so on down the nested item
\* fields: whatever the value is, it is neither iterated nor wrapped, and
\* what comes out is the value itself, lazy and marked strings evaluated.
\* ------------------------------------------------------------------------
RECURSIVE Innermost(_)
Innermost(f) == IF IsCollectionField(f) THEN Innermost(f.item_field) ELSE f

C16_LookupUsesItemField ==
    (prepared.ran /\ IsCollectionField(column_field)) =>
        LET subfield == column_field.item_field
            item == value_for_db(prepared.of, subfield,
                                 get_internal_type(subfield),
                                 nonrel_db_type(subfield), TRUE)
            last == Innermost(column_field)
            plain == value_for_db(prepared.of, last, get_internal_type(last),
                                  nonrel_db_type(last), TRUE)
        IN /\ prepared.raised = item.raised
           /\ prepared.ret = item.ret
           /\ prepared.raised = ""
           /\ prepared.ret = plain.ret
           /\ prepared.of \notin {Lazy(<<CHAR_a>>), Safe(<<CHAR_a>>)}
                 => prepared.ret = prepared.of

\* A list looked up in a list of dicts came out as the list it was.
C16_Witness ==
    /\ prepared.ran
    /\ column_field = CollectionField("ListField", "list",
                          CollectionField("DictField", "dict", RawField))
    /\ prepared.of = List(<<Int(1), Safe(<<CHAR_a>>)>>)
    /\ prepared.ret = prepared.of

\* ------------------------------------------------------------------------
\* C17.  value_for_db_model adds the entries "_module" and "_model", the
\* module and the name of the instance's class, after the entries of the
\* subfields exactly when save_model_info is true; value_from_db_model
\* instantiates the class those two entries name whenever both are stored,
\* whatever field.embedded_model is, and field.embedded_model otherwise; the
\* two entries are never among the data given to the constructor.
\* ------------------------------------------------------------------------
IsEmbedded == column_field # None /\ column_field.kind = "EmbeddedModelField"

Keyed(pairs) == {pairs[k].key : k \in 1..Len(pairs)}

\* The entries written for an instance saved with its class: in a list the
\* two come last, a dict has no order to speak of.
WithModelInfo(entries, n, instance, db_type) ==
    /\ Len(entries) = n + 2
    /\ Get(entries, MODULE_KEY) = MODELS_MODULE
    /\ Get(entries, MODEL_KEY) = Name(instance.model)
    /\ db_type = "list" =>
          /\ entries[n + 1].key = MODULE_KEY
          /\ entries[n + 2].key = MODEL_KEY

C17_ModelInfoRoundTrip ==
    /\ (Intact /\ IsEmbedded /\ python_value # None) =>
          LET entries == Entries(db_value)
              n == Len(python_value.field_values)
          IN /\ db_value.type = (IF column_field.db_type = "list"
                                 THEN "list" ELSE "dict")
             /\ db_value.type = "list" => Len(db_value.items) = 2 * Len(entries)
             /\ IF python_value.save_model_info
                THEN WithModelInfo(entries, n, python_value.instance,
                                   column_field.db_type)
                ELSE /\ Len(entries) = n
                     /\ Keyed(entries) \cap {MODULE_KEY, MODEL_KEY} = {}
    /\ (phase = "loaded" /\ IsEmbedded /\ loaded.of # None) =>
          LET entries == Entries(loaded.of)
          IN /\ IF {MODULE_KEY, MODEL_KEY} \subseteq Keyed(entries)
                THEN /\ loaded.raised = ""
                     /\ Name(loaded.ret.model) = Get(entries, MODEL_KEY)
                ELSE IF column_field.embedded_model # NoModel
                THEN /\ loaded.raised = ""
                     /\ loaded.ret.model = column_field.embedded_model
                ELSE loaded.raised = ATTRIBUTE_ERROR
             /\ loaded.raised = "" =>
                   /\ loaded.ret.type = "instance"
                   /\ Keyed(loaded.ret.data) \cap {MODULE_KEY, MODEL_KEY} = {}
    /\ (Intact /\ phase = "loaded" /\ IsEmbedded /\ python_value # None
        /\ python_value.save_model_info) =>
          /\ loaded.raised = ""
          /\ loaded.ret.model = python_value.instance.model

\* A SetModel instance saved with its class under a field declared for
\* EmbeddedModel came back as a SetModel.
C17_Witness ==
    /\ Intact
    /\ phase = "loaded"
    /\ IsEmbedded
    /\ column_field.embedded_model = "EmbeddedModel"
    /\ column_field.db_type = "list"
    /\ python_value # None
    /\ python_value.save_model_info
    /\ python_value.instance.model = "SetModel"
    /\ Len(db_value.items) = 8
    /\ loaded.raised = ""
    /\ loaded.ret.model = "SetModel"
    /\ Len(loaded.ret.data) = 2

\* ------------------------------------------------------------------------
\* C18.  value_from_db_model (embedded instance fields deconverted) takes
\* the subfields of the target model one by one: a subfield whose column is
\* not stored is left out of the constructor's data, without an exception,
\* and every subfield whose column is stored is given with its deconverted
\* value.
\* ------------------------------------------------------------------------
Deconverting ==
    /\ phase = "loaded"
    /\ IsEmbedded
    /\ column_field.class = "EmbeddedModelField"
    /\ loaded.of # None
    /\ loaded.raised # ATTRIBUTE_ERROR

C18_SubfieldsIndependent ==
    Deconverting =>
        /\ loaded.raised = ""
        /\ LET entries == Entries(loaded.of)
               subfields == Models[loaded.ret.model]
               data == loaded.ret.data
           IN /\ \A k \in 1..Len(subfields) :
                    LET subfield == subfields[k]
                    IN IF Name(subfield.column) \in Keyed(entries)
                       THEN /\ Name(subfield.attname) \in Keyed(data)
                            /\ Get(data, Name(subfield.attname))
                               = value_from_db(
                                     Get(entries, Name(subfield.column)),
                                     subfield.field,
                                     get_internal_type(subfield.field),
                                     nonrel_db_type(subfield.field)).ret
                       ELSE Name(subfield.attname) \notin Keyed(data)
              /\ \A key \in Keyed(data) :
                    \E k \in 1..Len(subfields) :
                        key = Name(subfields[k].attname)

\* A SetModel whose setfield column is not stored came back with its id
\* only.
C18_Witness ==
    /\ Deconverting
    /\ damage = "entry dropped"
    /\ loaded.raised = ""
    /\ loaded.ret.model = "SetModel"
    /\ Keyed(Entries(loaded.of)) = {Name("id"), MODULE_KEY, MODEL_KEY}
    /\ loaded.ret.data = <<Pair(Name("id"), Int(1))>>


\* ------------------------------------------------------------------------
\* Vocabulary of the compiler claims
\* ------------------------------------------------------------------------
\* The value of one field of a row, as lines 322-327 leave it.
FieldValue(record, f) ==
    IF f.column \in DOMAIN record
    THEN convert_value_from_db(record[f.column], f)
    ELSE Return(get_default(f))

\* A field whose value is None though the field is not nullable.
NoneNotNull(record, f) ==
    /\ FieldValue(record, f).raised = ""
    /\ FieldValue(record, f).ret = None
    /\ ~f.null

\* ------------------------------------------------------------------------
\* C19.  _make_result returns one value per requested field, in field
\* order: the field's default, not decoded, for a column absent from the
\* record; the decoded value for a present column.  When the value of a
\* non-nullable field is None, stored or default, IntegrityError is raised
\* and no row is produced.
\* ------------------------------------------------------------------------
C19_MakeResult ==
    [][step = "rows"
       => LET record == Head(fetched)
              bad == {k \in 1..Len(selected) :
                         NoneNotNull(record, selected[k])}
              broken == {k \in 1..Len(selected) :
                            FieldValue(record, selected[k]).raised # ""}
          IN /\ bad # {} /\ (\A k \in broken : \E b \in bad : b < k)
                   => /\ step' = "raised"
                      /\ failure' = INTEGRITY_ERROR
                      /\ results' = results
             /\ bad = {} /\ broken = {}
                   => /\ failure' = ""
                      /\ results' =
                            Append(results,
                                   [k \in 1..Len(selected) |->
                                       IF selected[k].column \in DOMAIN record
                                       THEN convert_value_from_db(
                                                record[selected[k].column],
                                                selected[k]).ret
                                       ELSE get_default(selected[k])])]_vars

\* A row with the defaults of two absent columns, the set's default a list
\* as it is declared; then an entity whose key column is absent, which ends
\* the call without a row.
C19_Witness ==
    /\ running = "results_iter"
    /\ step = "raised"
    /\ failure = INTEGRITY_ERROR
    /\ selected = Meta.ListModel.fields
    /\ Len(fetched) = 1
    /\ "integer" \notin DOMAIN Head(fetched)
    /\ results = <<<<Int(1), List(<<>>), List(<<>>), List(<<>>)>>>>

\* ------------------------------------------------------------------------
\* C20.  get_count(check_exists=True), and so has_results, has the driver
\* count with limit 1 whatever the query's low_mark and high_mark; with
\* check_exists false the limit is the query's high_mark.
\* ------------------------------------------------------------------------
C20_CountLimit ==
    \A k \in 1..Len(driver) :
        /\ driver[k].op = "count" /\ driver[k].on = built
        /\ step = "returned"
        /\ running \in {"get_count", "has_results", "execute_sql"}
        => /\ running = "has_results" => check_exists
           /\ running = "execute_sql" => ~check_exists
           /\ driver[k].limit = IF check_exists THEN Int(1)
                                ELSE query.high_mark

C20_Witness ==
    /\ running = "has_results"
    /\ step = "returned"
    /\ query.low_mark = Int(2)
    /\ query.high_mark = Int(3)
    /\ driver[Len(driver)] = [op |-> "count", on |-> built,
                               limit |-> Int(1)]

\* ------------------------------------------------------------------------
\* NonrelInsertCompiler: execute_sql
\* ------------------------------------------------------------------------
\* The most (field, value) pairs of one insert.
MaxPairs == 3

\* What the back-end's DatabaseOperations does with a value to store: the
\* conversion of the value for its field and storage type.
encode(x, fieldDescriptor, storageType, isLookupValue) ==
    value_for_db(x, fieldDescriptor, get_internal_type(fieldDescriptor),
                 storageType, isLookupValue)

\* Lines 425-458.
convert_value_for_db(x, f) == encode(x, f, nonrel_db_type(f), FALSE)

\* What a model instance may hold for each field when it is saved.
InsertValuesOf(f) ==
    {None} \cup
    CASE f.kind = "IntegerField" -> {Int(1)}
      [] f.kind = "ListField" -> {List(<<>>), List(<<Int(1)>>)}
      [] f.kind = "SetField" -> {Set(<<Int(1)>>)}

\* query.values of an insert: the fields of the model, each with its value,
\* and a column without a field.
RECURSIVE PairsOf(_)
PairsOf(fs) ==
    IF fs = <<>> THEN {<<>>, <<<<None, None>>>>, <<<<None, Int(1)>>>>}
    ELSE {<<<<Head(fs), x>>>> \o rest :
             x \in InsertValuesOf(Head(fs)), rest \in PairsOf(Tail(fs))}

Inserted ==
    {<<integer, names_with_default, names_nullable>>,
     <<names_nullable, names_with_default, integer>>,
     <<integer, setfield>>, <<names_with_default>>}

ColumnOf(pair) == IF pair[1] = None THEN "raw" ELSE pair[1].column

\* sql.InsertQuery.insert_values appends to columns and values together.
InsertQueries ==
    UNION {{[model |-> "ListModel", values |-> pairs,
             columns |-> [k \in 1..Len(pairs) |-> ColumnOf(pairs[k])]] :
               pairs \in {ps \in PairsOf(fs) : Len(ps) <= MaxPairs}} :
           fs \in Inserted}

InsertInit ==
    /\ NoQuery
    /\ OpsIdle
    /\ MoreIdle
    /\ query \in InsertQueries
    /\ DEBUG = FALSE
    /\ running = "idle"
    /\ step = ""
    /\ check_exists = FALSE
    /\ high_mark = None
    /\ selected = <<>>
    /\ built = 0
    /\ driver = <<>>
    /\ queries = <<>>
    /\ fetched = <<>>
    /\ results = <<>>
    /\ failure = ""

\* Line 478.
ExecuteInsert ==
    /\ running = "idle"
    /\ running' = "insert"
    /\ step' = "values"
    /\ position' = 1
    /\ insert_data' = <<>>
    /\ UNCHANGED <<query, DEBUG, check_exists, high_mark, selected, built,
                   driver, queries, fetched, results, failure, encoded>>
    /\ UNCHANGED <<queryVars, opsVars, notInsertVars>>

\* A slip: a None is let through for every field.
NullFor_Never(f, x) == FALSE

\* Line 481.
NullFor(f, x) == ~f.null /\ x = None

\* Lines 479-485: one pair of the loop.
InsertPair ==
    /\ running = "insert"
    /\ step = "values"
    /\ position <= Len(zip(query.values, query.columns))
    /\ \E pair \in {query.values[position]} :
          IF pair[1] # None /\ NullFor(pair[1], pair[2])
          THEN /\ Fail(INTEGRITY_ERROR)
               /\ UNCHANGED <<position, insert_data, encoded>>
          ELSE IF pair[1] # None
          THEN /\ encoded' = Append(encoded, [at |-> position,
                                              field |-> pair[1].name,
                                              value |-> pair[2]])
               /\ \E converted \in {convert_value_for_db(pair[2], pair[1])} :
                     IF converted.raised # ""
                     THEN /\ Fail(converted.raised)
                          /\ UNCHANGED <<position, insert_data>>
                     ELSE /\ insert_data' =
                                Put(insert_data,
                                    Pair(Name(query.columns[position]),
                                         converted.ret))
                          /\ position' = position + 1
                          /\ UNCHANGED <<step, failure>>
          ELSE /\ insert_data' = Put(insert_data,
                                     Pair(Name(query.columns[position]),
                                          pair[2]))
               /\ position' = position + 1
               /\ UNCHANGED <<step, failure, encoded>>
    /\ UNCHANGED <<query, DEBUG, running, check_exists, high_mark, selected, built,
                   driver, queries, fetched, results>>
    /\ UNCHANGED <<queryVars, opsVars, notInsertVars>>

\* Line 486: the back-end's insert is given the data.
InsertData ==
    /\ running = "insert"
    /\ step = "values"
    /\ position > Len(zip(query.values, query.columns))
    /\ \E return_id \in BOOLEAN :
          driver' = Append(driver, [op |-> "insert", values |-> insert_data,
                                    return_id |-> return_id])
    /\ step' = "returned"
    /\ UNCHANGED <<query, DEBUG, running, check_exists, high_mark, selected, built,
                   queries, fetched, results, failure>>
    /\ UNCHANGED <<queryVars, opsVars, moreVars>>

InsertNext ==
    \/ ExecuteInsert
    \/ InsertPair
    \/ InsertData

InsertSpec == InsertInit /\ [][InsertNext]_vars

\* ------------------------------------------------------------------------
\* C21.  If a pair of the insert has a non-nullable field and the value
\* None, wherever it stands: convert_value_for_db is never called for that
\* pair and the back-end's insert is never invoked; the call ends with
\* IntegrityError, raised at the first such pair.
\* ------------------------------------------------------------------------
Offending ==
    {k \in 1..Len(query.values) :
        /\ query.values[k][1] # None
        /\ ~query.values[k][1].null
        /\ query.values[k][2] = None}

C21_InsertFailsFastOnNull ==
    running = "insert" /\ Offending # {}
    => /\ \A k \in Offending : \A e \in 1..Len(encoded) : encoded[e].at # k
       /\ \A c \in 1..Len(driver) : driver[c].op # "insert"
       /\ step # "returned"
       /\ step = "raised"
             => /\ failure = INTEGRITY_ERROR
                /\ position \in Offending
                /\ \A k \in Offending : position <= k
       /\ step = "values" => \A k \in Offending : position <= k

\* The last pair of three is the offending one: the two before it were
\* converted, and nothing was inserted.
C21_Witness ==
    /\ running = "insert"
    /\ step = "raised"
    /\ failure = INTEGRITY_ERROR
    /\ position = 3
    /\ Len(encoded) = 2
    /\ Len(insert_data) = 2
    /\ Offending = {3}
    /\ driver = <<>>

\* ------------------------------------------------------------------------
\* C22.  Every operation that touches the store makes a new NonrelQuery
\* through build_query, has add_filters run on it before order_by, and then
\* calls exactly one of fetch, count and delete on it, once; no NonrelQuery
\* is executed twice or used by a later operation; the query of a delete is
\* made with the primary key as its only field.
\* ------------------------------------------------------------------------
Executions == {"fetch", "count", "delete"}

\* The calls made on the n-th NonrelQuery, in order.
OpsOn(n) ==
    LET On(e) == e.on = n
        made == SelectSeq(driver, On)
    IN [k \in 1..Len(made) |-> made[k].op]

ExecutionOf(call) ==
    CASE call = "results_iter" -> "fetch"
      [] call \in {"get_count", "has_results", "execute_sql"} -> "count"
      [] call = "delete" -> "delete"
      [] OTHER -> ""

C22_Lifecycle ==
    /\ \A k \in 1..Len(driver) :
          /\ driver[k].on \in 1..built
          /\ \A j \in 1..k : driver[j].on <= driver[k].on
          /\ driver[k].op = "delete"
                => \E j \in 1..k :
                      driver[j] = [op |-> "__init__", on |-> driver[k].on,
                                   fields |-> <<Meta[query.model].pk>>]
    /\ \A n \in 1..built :
          \/ OpsOn(n) = <<"__init__">>
          \/ OpsOn(n) = <<"__init__", "order_by">>
          \/ /\ Len(OpsOn(n)) = 3
             /\ SubSeq(OpsOn(n), 1, 2) = <<"__init__", "order_by">>
             /\ OpsOn(n)[3] \in Executions
    /\ step = "returned" /\ ExecutionOf(running) # ""
          => OpsOn(built) = <<"__init__", "order_by", ExecutionOf(running)>>
    /\ step \in {"count", "fetch", "delete"}
          => OpsOn(built) = <<"__init__", "order_by">>
    /\ step = "counted" => OpsOn(built) = <<"__init__", "order_by", "count">>
    /\ step = "add_filters" => OpsOn(built) = <<"__init__">>

C22_OneQueryPerOperation ==
    /\ []C22_Lifecycle
    /\ [][/\ driver' # driver
          /\ driver'[Len(driver')].op # "__init__"
          => /\ driver'[Len(driver')].on = built
             /\ driver'[Len(driver')].op = "order_by"
                   => pc = "done" /\ step = "add_filters"]_vars

\* A delete after an iteration: two objects, each executed once.
C22_Witness ==
    /\ built = 2
    /\ running = "delete"
    /\ step = "returned"
    /\ OpsOn(1) = <<"__init__", "order_by", "fetch">>
    /\ OpsOn(2) = <<"__init__", "order_by", "delete">>
    /\ calls # <<>>

\* ------------------------------------------------------------------------
\* C23.  _get_ordering yields, in the order of the ordering keys, one
\* (column, descending) pair per key: the column of the field the key names,
\* 'pk' naming the primary key, and descending exactly when the key has a
\* '-' prefix XOR the query's standard_ordering is false.
\* ------------------------------------------------------------------------
\* The ordering keys in force: order_by, or the model's when there is none
\* and the default ordering is on.
OrderingKeys ==
    IF query.order_by # <<>> \/ ~query.default_ordering THEN query.order_by
    ELSE Meta[query.model].ordering

KeyName(key) == key[Len(key)]
KeyHasMinus(key) == Len(key) > 1 /\ key[1] = "-"

ColumnNamed(name) ==
    IF name = "pk" THEN Meta[query.model].pk.column
    ELSE LET fs == Meta[query.model].fields
         IN fs[CHOOSE k \in 1..Len(fs) : fs[k].name = name].column

C23_Ordering ==
    \A k \in 1..Len(driver) :
        driver[k].op = "order_by"
        => /\ Len(driver[k].ordering) = Len(OrderingKeys)
           /\ \A i \in 1..Len(OrderingKeys) :
                 /\ driver[k].ordering[i].column =
                       ColumnNamed(KeyName(OrderingKeys[i]))
                 /\ driver[k].ordering[i].descending =
                       (KeyHasMinus(OrderingKeys[i])
                           # ~query.standard_ordering)

\* A reversed query ordered by '-pk' and by a field whose column has
\* another name: the key comes out ascending, the field descending.
C23_Witness ==
    /\ ~query.standard_ordering
    /\ query.order_by = <<<<"-", "pk">>, <<"setfield">>>>
    /\ driver # <<>>
    /\ driver[Len(driver)].op = "order_by"
    /\ driver[Len(driver)].ordering =
          <<[column |-> "integer", descending |-> FALSE],
            [column |-> "custom", descending |-> TRUE]>>

\* ------------------------------------------------------------------------
\* C24.  execute_sql returns the driver's count, [count] for SINGLE and
\* [[count]] for MULTI, only when the query has exactly one aggregate and it
\* is a Count; with no aggregate, another aggregate or more than one it ends
\* in an error and the driver's count is not called.
\* check_aggregate_support raises NotImplementedError for every aggregate
\* that is not a Count.
\* ------------------------------------------------------------------------
OneCount ==
    Len(aggregate_select) = 1 /\ aggregate_select[1].class = "Count"

C24_State ==
    /\ running = "execute_sql" /\ step = "returned"
          => /\ OneCount
             /\ driver # <<>>
             /\ driver[Len(driver)].op = "count"
             /\ driver[Len(driver)].on = built
             /\ \E n \in 0..1 :
                   results = IF result_type = SINGLE
                             THEN <<List(<<Int(n)>>)>>
                             ELSE <<List(<<List(<<Int(n)>>)>>)>>
             /\ result_type \in {SINGLE, MULTI}
    /\ running = "execute_sql" /\ ~OneCount
          => /\ step \in {"aggregates", "raised"}
             /\ step = "raised"
                   => failure \in {ASSERTION_ERROR, NOT_IMPLEMENTED}
    /\ running = "check_aggregate_support"
          => /\ aggregate.class # "Count"
                   <=> step = "raised" /\ failure = NOT_IMPLEMENTED
             /\ aggregate.class = "Count" <=> step = "returned"

C24_OnlyCount ==
    /\ []C24_State
    /\ [][running = "execute_sql" /\ ~OneCount
             => driver' = driver /\ built' = built]_vars

\* After a count of the same compiler: a query with a Count and a Sum ends
\* in an error with the driver's calls as they were.
C24_Witness ==
    /\ running = "execute_sql"
    /\ step = "raised"
    /\ Len(aggregate_select) = 2
    /\ aggregate_select[2].class = "Sum"
    /\ built = 1
    /\ driver[Len(driver)].op = "count"

\* ------------------------------------------------------------------------
\* NonrelDatabaseCreation: db_type and db_info
\* ------------------------------------------------------------------------
\* The most db_info calls looked at.
MaxDbInfos == 3

\* creation.py, lines 11-62, for the kinds of the fields below.
data_types ==
    [AutoField |-> "key", ForeignKey |-> "key", IntegerField |-> "integer",
     CharField |-> "string", ListField |-> "list"]

\* The field objects: what db_info and db_type read of each.  `rel` is the
\* table of the model a related field refers to, `model` the table of the
\* field's own model, each NoModel where there is none.
CreationFields ==
    [id |-> [kind |-> "AutoField", primary_key |-> TRUE, rel |-> NoModel,
             model |-> db_table, value_field |-> NoModel],
     integer |-> [kind |-> "IntegerField", primary_key |-> TRUE,
                  rel |-> NoModel, model |-> db_table, value_field |-> NoModel],
     target |-> [kind |-> "ForeignKey", primary_key |-> FALSE,
                 rel |-> "target", model |-> db_table, value_field |-> NoModel],
     names |-> [kind |-> "ListField", primary_key |-> FALSE, rel |-> NoModel,
                model |-> db_table, value_field |-> "item"],
     item |-> [kind |-> "CharField", primary_key |-> FALSE, rel |-> NoModel,
               model |-> NoModel, value_field |-> NoModel]]

CONNECTIONS == {"default", "other"}

\* Lines 135-144; the inherited db_type looks the kind up in data_types.
db_type(has_key_type, f) ==
    IF has_key_type /\ (f.primary_key \/ f.rel # NoModel)
    THEN "key"
    ELSE data_types[f.kind]

\* Lines 108-131: what db_info computes for a field through a connection.
\* db_subinfo is the closure: the connection it calls db_info through and
\* the field it calls it for.
Computed(connection, has_key_type, f) ==
    [field_type |-> f.kind,
     db_type |-> db_type(has_key_type, f),
     db_table |-> IF f.rel # NoModel THEN f.rel ELSE f.model,
     db_subinfo |-> IF f.value_field # NoModel
                    THEN [self |-> connection, field |-> f.value_field]
                    ELSE None]

CreationInit ==
    /\ NoQuery
    /\ OpsIdle
    /\ CompilerIdle
    /\ InsertIdle
    /\ AggregateIdle
    /\ PermIdle
    /\ features \in [CONNECTIONS -> BOOLEAN]
    /\ _db_info = [f \in DOMAIN CreationFields |-> None]
    /\ db_infos = <<>>

\* Lines 103-133: db_info(field) through a connection.
DbInfo ==
    /\ Len(db_infos) < MaxDbInfos
    /\ \E connection \in CONNECTIONS, f \in DOMAIN CreationFields :
          \E memo \in {IF _db_info[f] = None
                       THEN Computed(connection, features[connection],
                                     CreationFields[f])
                       ELSE _db_info[f]} :
             /\ _db_info' = [_db_info EXCEPT ![f] = memo]
             /\ db_infos' = Append(db_infos, [connection |-> connection,
                                              field |-> f, ret |-> memo])
    /\ UNCHANGED <<features, queryVars, opsVars, compilerVars,
                   notCreationVars>>

\* Lines 126-128: the db_subinfo of a memoized tuple is called.
DbSubinfo ==
    /\ Len(db_infos) < MaxDbInfos
    /\ \E f \in DOMAIN CreationFields :
          /\ _db_info[f] # None
          /\ _db_info[f].db_subinfo # None
          /\ \E memo \in {IF _db_info[_db_info[f].db_subinfo.field] = None
                          THEN Computed(
                                 _db_info[f].db_subinfo.self,
                                 features[_db_info[f].db_subinfo.self],
                                 CreationFields[_db_info[f].db_subinfo.field])
                          ELSE _db_info[_db_info[f].db_subinfo.field]} :
                /\ _db_info' = [_db_info EXCEPT
                                   ![_db_info[f].db_subinfo.field] = memo]
                /\ db_infos' =
                      Append(db_infos,
                             [connection |-> _db_info[f].db_subinfo.self,
                              field |-> _db_info[f].db_subinfo.field,
                              ret |-> memo])
    /\ UNCHANGED <<features, queryVars, opsVars, compilerVars,
                   notCreationVars>>

CreationNext ==
    \/ DbInfo
    \/ DbSubinfo

CreationSpec == CreationInit /\ [][CreationNext]_vars

\* ------------------------------------------------------------------------
\* C25.  After any sequence of db_info calls on the same field object,
\* through connections whose has_key_type may differ, each call returns the
\* field_type, db_type and db_table that a fresh computation for the calling
\* connection would return.
\* ------------------------------------------------------------------------
Fresh(connection, f) ==
    Computed(connection, features[connection], CreationFields[f])

C25_MemoizedAsFresh ==
    \A k \in 1..Len(db_infos) :
        LET call == db_infos[k]
            fresh == Fresh(call.connection, call.field)
        IN /\ call.ret.field_type = fresh.field_type
           /\ call.ret.db_type = fresh.db_type
           /\ call.ret.db_table = fresh.db_table

\* ------------------------------------------------------------------------
\* C26.  For every tree add_filters accepts, no leaf of it pruned, and every
\* record: _matches_filters(record, tree) is true exactly when every filter
\* add_filters emitted holds on the record, a filter holding when the
\* operator-table result of its lookup type on record[column] and its
\* value, inverted if it is negated, is true.
\* ------------------------------------------------------------------------
\* The operator-table result is true, or false and inverted.
Held(result, negated) == result.raised = "" /\ (result.ret # negated)

FilterHolds(f, record) ==
    /\ f.column \in DOMAIN record
    /\ Held(EMULATED_OPS(f.lookup_type, record[f.column], f.value), f.negated)

NoLeafPruned ==
    \A k \in 1..Len(LeafPaths(filters, <<>>)) :
        ~Pruned(At(filters, LeafPaths(filters, <<>>)[k]))

\* add_filters has accepted the tree and _matches_filters was run on it.
TranslatedAndMatched == pc = "done" /\ matched.ran /\ NoLeafPruned

C26_MatchAgreesWithFilters ==
    TranslatedAndMatched
    => ((matched.raised = "" /\ matched.ret)
           <=> \A k \in 1..Len(calls) : FilterHolds(calls[k].args, entity))

\* ------------------------------------------------------------------------
\* C27.  _matches_filters treats every leaf it evaluates as _decode_child
\* does: it raises the JOINs error for the same aliases, the
\* not-a-list error for the same values, and, where both accept the leaf,
\* compares the record with the value _decode_child hands to add_filter.
\* ------------------------------------------------------------------------
\* What _matches_filters compares the column with, or what it raises
\* before the comparison.
MatchedValue(child) ==
    IF child.alias # db_table THEN Raise(NO_JOINS)
    ELSE MatchValue(child.lookup_type, child.value, child.annotation)

\* What _decode_child hands to add_filter as the value, or what it raises.
DecodedValue(child) ==
    IF _decode_child(child).raised # "" THEN _decode_child(child)
    ELSE Return(_decode_child(child).ret.value)

LeafAlike(child) ==
    /\ DecodedValue(child).raised = NO_JOINS
          <=> MatchedValue(child).raised = NO_JOINS
    /\ DecodedValue(child).raised = NOT_A_LIST
          <=> MatchedValue(child).raised = NOT_A_LIST
    /\ DecodedValue(child).raised = "" /\ MatchedValue(child).raised = ""
          => DecodedValue(child).ret = MatchedValue(child).ret

C27_LeafDecodedAlike ==
    matched.ran
    => \A k \in 1..Len(matched.evaluated) :
          LeafAlike(At(filters, matched.evaluated[k]))

\* ------------------------------------------------------------------------
\* C28.  When add_filters raises a DatabaseError, at any depth of the tree,
\* _negated has the value it had before the outermost call: False, the
\* value NonrelQuery.__init__ gives it.
\* ------------------------------------------------------------------------
C28_FlagAfterRaise ==
    pc = "raised" /\ raised \in DatabaseErrors => _negated = FALSE

\* ------------------------------------------------------------------------
\* C29.  For a query check_query rejects, no step of results_iter,
\* get_count, has_results or NonrelDeleteCompiler.execute_sql makes a
\* driver query or calls one, and the call ends in check_query's
\* DatabaseError.
\* ------------------------------------------------------------------------
StoreCalls == {"results_iter", "get_count", "has_results", "delete"}

RejectedShape == query # None /\ check_query(query).raised # ""

C29_Raises ==
    RejectedShape /\ running \in StoreCalls /\ step \in {"returned", "raised"}
    => step = "raised" /\ failure = NOT_SUPPORTED

C29_NeverReachesDriver ==
    /\ []C29_Raises
    /\ [][RejectedShape /\ running' \in StoreCalls
             => driver' = driver /\ built' = built]_vars

\* ------------------------------------------------------------------------
\* auth/utils.py: the permission lists
\* ------------------------------------------------------------------------
MaxPermCalls == 3
MaxPermObjs == 2

\* Permission objects: id, content_type.app_label, codename.
Permission(id, app_label, codename) ==
    [id |-> id, content_type |-> [app_label |-> app_label],
     codename |-> codename]

Permissions ==
    {Permission(11, "auth", "add_user"), Permission(12, "auth", "change_user"),
     Permission(13, "sites", "add_site")}

\* '%s.%s' % (perm.content_type.app_label, perm.codename)
PermStr(perm) == perm.content_type.app_label \o "." \o perm.codename

\* The perms argument of update_list: permission objects, in any order.
PermObjs == UNION {[1..n -> Permissions] : n \in 0..MaxPermObjs}

\* list.index(x): the first position holding x, 0 standing for ValueError.
RECURSIVE IndexFrom(_, _, _)
IndexFrom(list, x, i) ==
    IF i > Len(list) THEN 0
    ELSE IF list[i] = x THEN i
    ELSE IndexFrom(list, x, i + 1)

Index(list, x) == IndexFrom(list, x, 1)

\* list.pop(i), i counted from 1: the list without its i-th element.
Pop(list, i) == [k \in 1..(Len(list) - 1) |-> IF k < i THEN list[k]
                                                 ELSE list[k + 1]]

\* The two lists of list_obj in memory, and what the call raised.
Lists(names, fks, kind) ==
    [permission_list |-> names, permission_fk_list |-> fks, raised |-> kind]

\* Line 66: list_obj.permission_fk_list.pop(i).
PopFk(fks, i) == Pop(fks, i)

\* Lines 60-66: the loop over old_perms from position k on.
RECURSIVE RemoveOld(_, _, _, _)
RemoveOld(old_perms, perm_strs, k, lists) ==
    IF k > Len(old_perms) \/ lists.raised # "" THEN lists
    ELSE IF Index(perm_strs, old_perms[k]) # 0
    THEN RemoveOld(old_perms, perm_strs, k + 1, lists)
    ELSE RemoveOld(old_perms, perm_strs, k + 1,
           IF Index(lists.permission_list, old_perms[k])
                 > Len(lists.permission_fk_list)
           THEN Lists(Pop(lists.permission_list,
                          Index(lists.permission_list, old_perms[k])),
                      lists.permission_fk_list, INDEX_ERROR)
           ELSE Lists(Pop(lists.permission_list,
                          Index(lists.permission_list, old_perms[k])),
                      PopFk(lists.permission_fk_list,
                            Index(lists.permission_list, old_perms[k])),
                      ""))

\* Lines 68-75: the loop over perm_strs from position k on.
RECURSIVE AddNew(_, _, _, _, _)
AddNew(old_perms, perm_strs, perm_ids, k, lists) ==
    IF k > Len(perm_strs) \/ lists.raised # "" THEN lists
    ELSE IF Index(old_perms, perm_strs[k]) # 0
    THEN AddNew(old_perms, perm_strs, perm_ids, k + 1, lists)
    ELSE AddNew(old_perms, perm_strs, perm_ids, k + 1,
                Lists(Append(lists.permission_list, perm_strs[k]),
                      Append(lists.permission_fk_list, perm_ids[k]), ""))

\* Lines 53-75: list_obj after the two loops.
update_list(perm_objs, names, fks) ==
    AddNew(names,
           [k \in 1..Len(perm_objs) |-> PermStr(perm_objs[k])],
           [k \in 1..Len(perm_objs) |-> perm_objs[k].id],
           1,
           RemoveOld(names,
                     [k \in 1..Len(perm_objs) |-> PermStr(perm_objs[k])],
                     1, Lists(names, fks, "")))

\* get_or_create has made the object: both ListFields are empty.
PermInit ==
    /\ NoQuery
    /\ OpsIdle
    /\ CompilerIdle
    /\ MoreIdle

\* add_permission_to_user / add_permission_to_group: add_perm_to, lines
\* 25-29.
AddPermTo ==
    /\ perm_calls < MaxPermCalls
    /\ \E obj \in Permissions :
          permission_list' = Append(permission_list, PermStr(obj))
    /\ perm_calls' = perm_calls + 1
    /\ perm_raised' = ""
    /\ UNCHANGED <<permission_fk_list, queryVars, opsVars, compilerVars,
                   notPermVars>>

\* update_permissions_user / update_permissions_group: update_list, lines
\* 47-77.  list_obj.save() is the last statement: a call that raises
\* leaves the stored object as it was.
UpdateList ==
    /\ perm_calls < MaxPermCalls
    /\ \E perm_objs \in PermObjs :
          \E lists \in {update_list(perm_objs, permission_list,
                                    permission_fk_list)} :
             /\ perm_raised' = lists.raised
             /\ permission_list' = IF lists.raised = ""
                                   THEN lists.permission_list
                                   ELSE permission_list
             /\ permission_fk_list' = IF lists.raised = ""
                                      THEN lists.permission_fk_list
                                      ELSE permission_fk_list
    /\ perm_calls' = perm_calls + 1
    /\ UNCHANGED <<queryVars, opsVars, compilerVars, notPermVars>>

PermNext == AddPermTo \/ UpdateList

PermSpec == PermInit /\ [][PermNext]_vars

\* ------------------------------------------------------------------------
\* C30.  After any sequence of add_perm_to and update_list calls on one
\* permission-list object, permission_list and permission_fk_list have the
\* same length, and position i of permission_fk_list holds the id of the
\* permission named at position i of permission_list.
\* ------------------------------------------------------------------------
IdOf(name) == (CHOOSE perm \in Permissions : PermStr(perm) = name).id

C30_ListsAligned ==
    /\ Len(permission_fk_list) = Len(permission_list)
    /\ \A i \in 1..Len(permission_list) :
          permission_fk_list[i] = IdOf(permission_list[i])

====
